---------------------------- MODULE Spec2Model ----------------------------
(***************************************************************************)
(* Read path of the columnar file-format engine:                           *)
(*   - the run-end-encoded (REE) logical array                             *)
(*       arrow-array/src/array/run_array.rs                                *)
(*   - the page-index pruner                                               *)
(*       parquet/src/file/filer_offset_index.rs                            *)
(*   - the page reader of a column chunk                                   *)
(*       parquet/src/file/serialized_reader.rs                             *)
(*                                                                         *)
(* Option<T> is written as a sequence of length at most one: <<>> is None  *)
(* (a null slot of an array), <<v>> is Some(v).  Rust indexes from 0, TLA+ *)
(* sequences from 1: element k of a Rust array a is a[k + 1] here.         *)
(***************************************************************************)
EXTENDS Integers, Sequences, FiniteSets, TLC

(***************************************************************************)
(* Bounds of the model.                                                    *)
(***************************************************************************)
\* longest run_ends / values array handed to RunArray::try_new
MaxLen == 3
\* largest run end
MaxEnd == 4
\* longest logical array handed to from_iter
MaxInput == 4
\* largest number of page locations of a column chunk
MaxPages == 3
\* largest first_row_index of a page
MaxRow == 3
\* largest number of intervals of a RowRanges
MaxRanges == 2
\* largest compressed_page_size of a page in a laid-out chunk
MaxSize == 3
\* largest gap between two neighbouring pages of a laid-out chunk
MaxGap == 1
\* largest file offset of the first data page of a laid-out chunk
MaxFirstOffset == 3
\* largest number of data pages of a column chunk read by a page reader
MaxDataPages == 3
\* largest num_values of a page
MaxValues == 2
MaxBody == 2
MaxLevelBytes == 1
MaxCalls == 5
\* a file holds at most MaxRowGroups row groups
MaxRowGroups == 2
\* at most MaxPredicates predicates are registered in one ReadOptionsBuilder
MaxPredicates == 2
\* read_records is asked for at most MaxBatch records
MaxBatch == 3
\* a page iterator yields at most MaxChunks page readers
MaxChunks == 2

VARIABLES
    run_ends,          \* try_new argument: PrimitiveArray<R>, slots Option<int>
    values,            \* try_new argument: the values array, slots Option<int>
    input,             \* from_iter argument: the logical array, Option<int> items
    array,             \* the RunArray under study: <<>> or <<[len, run_ends, values]>>
    result,            \* what the last call returned
    offset_index,      \* FilterOffsetIndex::try_new argument: [PageLocation]
    ranges,            \* FilterOffsetIndex::try_new argument: RowRanges
    total_row_count,   \* FilterOffsetIndex::try_new argument
    filter,            \* the FilterOffsetIndex under study: <<>> or <<[offset_index, index_map]>>
    chunk,             \* the column chunk a page reader is built on: its pages and metadata
    reader,            \* the SerializedPageReader under study: <<>> or <<its fields>>
    emitted,           \* history: the pages get_next_page has returned, in order
    ended,             \* history: a get_next_page call has returned Ok(None)
    skips,             \* history: the number of skip_next_page calls that returned Ok
    decoding,          \* decode_page arguments: <<>> or <<[page_header, buffer, decompressor]>>
    row_groups,        \* the row groups of a file's footer metadata
    options,           \* ReadOptions: <<>> or <<[predicates, enable_page_index]>>
    columns,           \* the column chunks of one row group, all in one shared chunk reader
    page_readers,      \* per column: <<>> or <<the page reader obtained for it>>
    yielded,           \* history, per column: what its get_next_page calls returned
    batch,             \* a read_records call: <<>> or <<its arguments, locals and progress>>
    search             \* a get_physical_index call: <<>> or <<its argument, locals and progress>>

vars == <<run_ends, values, input, array, result,
          offset_index, ranges, total_row_count, filter,
          chunk, reader, emitted, ended, skips,
          decoding, row_groups, options, columns, page_readers, yielded,
          batch, search>>

ree_vars == <<run_ends, values, input, array>>
filter_vars == <<offset_index, ranges, total_row_count, filter>>
reader_vars == <<chunk, reader, emitted, ended, skips>>
options_vars == <<row_groups, options>>
columns_vars == <<columns, page_readers, yielded>>
records_vars == <<batch>>
search_vars == <<search>>
file_vars == <<decoding, options_vars, columns_vars, records_vars>>

(***************************************************************************)
(* Helpers on Option and on bounded sequences.                             *)
(***************************************************************************)
None == <<>>
Some(v) == <<v>>
is_null(x) == x = None

SeqsUpTo(S, n) == UNION {[1..k -> S] : k \in 0..n}

\* the payload types of the model: run ends are signed (i16/i32/i64), the
\* values are a primitive type with two distinct non-default items
RunEndItems == (0 - 1)..MaxEnd
ValueItems == {10, 11}

\* Default::default() of a primitive item: what a null slot holds
DefaultItem == 0

\* PrimitiveArray::value / value_unchecked: the payload of slot k (0-based),
\* whatever the null bitmap says
value_unchecked(a, k) == IF is_null(a[k + 1]) THEN DefaultItem ELSE a[k + 1][1]

\* ArrowNativeType::as_usize: an `as` cast, which wraps a negative number
\* (usize is modelled 30 bits wide; the wrap is reached only for a negative
\* last run end, which validation rejects)
as_usize(v) == v % (2 ^ 30)

(***************************************************************************)
(* RunArray::logical_len                                                   *)
(***************************************************************************)
logical_len_physical(re) == Len(re)

logical_len(re) ==
    LET len == Len(re) IN
    IF len = 0 THEN 0 ELSE as_usize(value_unchecked(re, len - 1))

(***************************************************************************)
(* ArrayData::validate_data for DataType::RunEndEncoded.  The outcome is a *)
(* record: ValidationOk, or an error naming its kind and the offending     *)
(* data.  Indexes in errors are 0-based as in the messages.                *)
(***************************************************************************)
ValidationOk == [kind |-> "Ok"]

RECURSIVE check_run_ends(_, _)
check_run_ends(re, i) ==
    IF i >= Len(re) THEN ValidationOk
    ELSE LET v == value_unchecked(re, i) IN
         IF v <= 0
         THEN [kind |-> "NonPositiveRunEnd", index |-> i, value |-> v]
         ELSE IF i > 0 /\ v <= value_unchecked(re, i - 1)
         THEN [kind |-> "NonIncreasingRunEnd", index |-> i, value |-> v,
               prev |-> value_unchecked(re, i - 1)]
         ELSE check_run_ends(re, i + 1)

validate_data(data) ==
    LET re == data.child_data[1]
        vs == data.child_data[2]
    IN  IF Len(re) # Len(vs)
        THEN [kind |-> "LengthMismatch", run_ends_len |-> Len(re),
              values_len |-> Len(vs)]
        ELSE IF \E k \in 1..Len(re) : is_null(re[k])
        THEN [kind |-> "NullsInRunEnds"]
        ELSE check_run_ends(re, 0)

(***************************************************************************)
(* RunArray::try_new and From<ArrayData> for RunArray                      *)
(***************************************************************************)
from_array_data(data) ==
    [len |-> data.len, run_ends |-> data.child_data[1], values |-> data.child_data[2]]

\* mutant: the validation result is dropped
try_new_unvalidated(re, vs) ==
    LET data == [len |-> logical_len(re), child_data |-> <<re, vs>>]
    IN  [ok |-> TRUE, array |-> from_array_data(data)]

\* mutant: the two children are added in the wrong order
try_new_swapped(re, vs) ==
    LET data == [len |-> logical_len(re), child_data |-> <<vs, re>>]
        v == validate_data(data)
    IN  IF v # ValidationOk
        THEN [ok |-> FALSE, err |-> v]
        ELSE [ok |-> TRUE, array |-> from_array_data(data)]

try_new(re, vs) ==
    LET data == [len |-> logical_len(re), child_data |-> <<re, vs>>]
        v == validate_data(data)
    IN  IF v # ValidationOk
        THEN [ok |-> FALSE, err |-> v]
        ELSE [ok |-> TRUE, array |-> from_array_data(data)]

(***************************************************************************)
(* TypedRunArray::get_physical_index: binary search on run_ends            *)
(***************************************************************************)
\* mutant: the probe reads run_ends[mid] instead of run_ends[mid - 1]
RECURSIVE search_loop_probe_mid(_, _, _, _)
search_loop_probe_mid(re, logical_index, st, en) ==
    IF st + 1 < en
    THEN LET mid == (st + en) \div 2 IN
         IF logical_index < as_usize(value_unchecked(re, mid))
         THEN search_loop_probe_mid(re, logical_index, st, mid)
         ELSE search_loop_probe_mid(re, logical_index, mid, en)
    ELSE st

\* the `while st + 1 < en` loop, from the values st and en have on entry
RECURSIVE search_loop(_, _, _, _)
search_loop(re, logical_index, st, en) ==
    IF st + 1 < en
    THEN LET mid == (st + en) \div 2 IN
         IF logical_index < as_usize(value_unchecked(re, mid - 1))
         THEN search_loop(re, logical_index, st, mid)
         ELSE search_loop(re, logical_index, mid, en)
    ELSE st

\* mutant: the bound check lets logical_index = len through
get_physical_index_inclusive(arr, logical_index) ==
    IF logical_index > arr.len
    THEN None
    ELSE Some(search_loop(arr.run_ends, logical_index, 0, Len(arr.run_ends)))

get_physical_index(arr, logical_index) ==
    IF logical_index >= arr.len
    THEN None
    ELSE Some(search_loop(arr.run_ends, logical_index, 0, Len(arr.run_ends)))

(***************************************************************************)
(* ArrayAccessor for TypedRunArray: value and value_unchecked.  A panic    *)
(* is the outcome [panic |-> TRUE].                                        *)
(***************************************************************************)
Panic == [panic |-> TRUE]
Returned(v) == [panic |-> FALSE, item |-> v]

\* mutant: the run's value is read at the logical index's run end position
typed_value_unchecked_prev_run(arr, logical_index) ==
    LET physical_index == get_physical_index(arr, logical_index) IN
    IF is_null(physical_index)
    THEN Panic
    ELSE Returned(value_unchecked(arr.values,
                    IF physical_index[1] > 0 THEN physical_index[1] - 1 ELSE 0))

\* TypedRunArray::value_unchecked; Option::unwrap panics on None
typed_value_unchecked(arr, logical_index) ==
    LET physical_index == get_physical_index(arr, logical_index) IN
    IF is_null(physical_index)
    THEN Panic
    ELSE Returned(value_unchecked(arr.values, physical_index[1]))

\* mutant: the assertion is off by one
typed_value_strict(arr, logical_index) ==
    IF ~(logical_index + 1 < arr.len)
    THEN Panic
    ELSE typed_value_unchecked(arr, logical_index)

typed_value(arr, logical_index) ==
    IF ~(logical_index < arr.len)
    THEN Panic
    ELSE typed_value_unchecked(arr, logical_index)

(***************************************************************************)
(* The run builder (StringRunBuilder / PrimitiveRunBuilder) and            *)
(* FromIterator for RunArray.                                              *)
(***************************************************************************)
\* with_capacity: an empty builder
new_builder ==
    [run_ends |-> <<>>, values |-> <<>>, current_value |-> None,
     current_run_end_index |-> 0, prev_run_end_index |-> 0]

\* append_run_end: closes the current run, if there is one
append_run_end(b) ==
    IF b.prev_run_end_index = b.current_run_end_index
    THEN b
    ELSE [b EXCEPT !.run_ends = Append(@, Some(b.current_run_end_index)),
                   !.values = Append(@, b.current_value),
                   !.prev_run_end_index = b.current_run_end_index]

\* append_option: extends the current run or starts a new one
append_option(b, v) ==
    IF b.current_run_end_index = 0
    THEN [b EXCEPT !.current_run_end_index = 1, !.current_value = v]
    ELSE IF b.current_value # v
    THEN LET c == append_run_end(b) IN
         [c EXCEPT !.current_value = v,
                   !.current_run_end_index = c.current_run_end_index + 1]
    ELSE [b EXCEPT !.current_run_end_index = b.current_run_end_index + 1]

\* finish: closes the last run and builds the array
finish(b) ==
    LET c == append_run_end(b) IN
    [len |-> c.current_run_end_index, run_ends |-> c.run_ends, values |-> c.values]

RECURSIVE for_each_append_option(_, _)
for_each_append_option(b, it) ==
    IF it = <<>> THEN b
    ELSE for_each_append_option(append_option(b, Head(it)), Tail(it))

\* mutant: null items are filtered out of the iterator before they are appended
from_iter_flatten(it) ==
    finish(for_each_append_option(new_builder,
             SelectSeq(it, LAMBDA x : ~is_null(x))))

\* FromIterator<Option<T>> for RunArray
from_iter(it) == finish(for_each_append_option(new_builder, it))

(***************************************************************************)
(* Range and RowRanges (file::page_index::range)                           *)
(***************************************************************************)
Range_new(from, to) == [from |-> from, to |-> to]

\* RowRanges::is_overlapping: closed intervals, inclusive on both ends
is_overlapping(rr, range) ==
    \E k \in 1..Len(rr) : rr[k].from <= range.to /\ range.from <= rr[k].to

(***************************************************************************)
(* FilterOffsetIndex::try_new                                              *)
(***************************************************************************)
\* mutant: the row range of a non-final page runs up to the next page's first row
page_range_to_next(oi, i, total) ==
    IF i = Len(oi) - 1
    THEN Range_new(as_usize(oi[i + 1].first_row_index), as_usize(total))
    ELSE Range_new(as_usize(oi[i + 1].first_row_index),
                   as_usize(oi[i + 2].first_row_index))

\* the row range of page i (0-based), lines 42-53
page_range(oi, i, total) ==
    IF i = Len(oi) - 1
    THEN Range_new(as_usize(oi[i + 1].first_row_index), as_usize(total))
    ELSE Range_new(as_usize(oi[i + 1].first_row_index),
                   as_usize(oi[i + 2].first_row_index - 1))

\* mutant: the retained position is pushed 1-based
RECURSIVE filter_loop_one_based(_, _, _, _, _)
filter_loop_one_based(oi, rr, total, i, index) ==
    IF i >= Len(oi) THEN [panic |-> FALSE, index |-> index]
    ELSE IF Len(oi) < 1 \/ (i # Len(oi) - 1 /\ i + 1 >= Len(oi))
    THEN [panic |-> TRUE]
    ELSE filter_loop_one_based(oi, rr, total, i + 1,
             IF is_overlapping(rr, page_range(oi, i, total))
             THEN Append(index, i + 1) ELSE index)

\* the `for i in 0..offset_index.len()` loop from iteration i on; it panics
\* on `len() - 1` of an empty slice and on an index past the end
RECURSIVE filter_loop(_, _, _, _, _)
filter_loop(oi, rr, total, i, index) ==
    IF i >= Len(oi) THEN [panic |-> FALSE, index |-> index]
    ELSE IF Len(oi) < 1 \/ (i # Len(oi) - 1 /\ i + 1 >= Len(oi))
    THEN [panic |-> TRUE]
    ELSE filter_loop(oi, rr, total, i + 1,
             IF is_overlapping(rr, page_range(oi, i, total))
             THEN Append(index, i) ELSE index)

filter_try_new(oi, rr, total) ==
    LET r == filter_loop(oi, rr, total, 0, <<>>) IN
    IF r.panic THEN Panic
    ELSE [panic |-> FALSE, item |-> [offset_index |-> oi, index_map |-> r.index]]

(***************************************************************************)
(* FilterOffsetIndex accessors and calculate_offset_range                  *)
(***************************************************************************)
get_page_count(f) == Len(f.index_map)

\* lines 81-88; index_map[page_index] panics past the end of index_map
get_first_row_index(f, page_index) ==
    IF page_index >= Len(f.index_map) THEN Panic
    ELSE f.offset_index[f.index_map[page_index + 1] + 1].first_row_index

\* lines 90-105
get_last_row_index(f, page_index, total) ==
    IF page_index >= Len(f.index_map) THEN Panic
    ELSE LET next_index == f.index_map[page_index + 1] + 1 IN
         IF next_index >= get_page_count(f) THEN total
         ELSE f.offset_index[next_index + 1].first_row_index - 1

\* get_offset / get_compressed_page_size of retained page page_index (0-based)
get_offset(f, page_index) ==
    f.offset_index[f.index_map[page_index + 1] + 1].offset

get_compressed_page_size(f, page_index) ==
    f.offset_index[f.index_map[page_index + 1] + 1].compressed_page_size

\* the `for i in 1..page_count` loop from iteration i on, and the final push
RECURSIVE coalesce_loop(_, _, _, _, _, _)
coalesce_loop(f, i, current_offset, current_length, start_list, length_list) ==
    IF i >= get_page_count(f)
    THEN [start_list |-> Append(start_list, as_usize(current_offset)),
          length_list |-> Append(length_list, as_usize(current_length))]
    ELSE LET offset == get_offset(f, i)
             length == get_compressed_page_size(f, i)
         IN  IF current_length + current_length = offset
             THEN coalesce_loop(f, i + 1, current_offset, current_length + length,
                                start_list, length_list)
             ELSE coalesce_loop(f, i + 1, offset, length,
                                Append(start_list, as_usize(current_offset)),
                                Append(length_list, as_usize(current_length)))

calculate_offset_range(f, row_group_offset) ==
    IF get_page_count(f) > 0
    THEN LET first_page_offset == get_offset(f, 0)
             dictionary == row_group_offset < first_page_offset
         IN  coalesce_loop(f, 1, get_offset(f, 0), get_compressed_page_size(f, 0),
                 IF dictionary THEN <<as_usize(row_group_offset)>> ELSE <<>>,
                 IF dictionary THEN <<as_usize(first_page_offset - 1)>> ELSE <<>>)
    ELSE [start_list |-> <<>>, length_list |-> <<>>]

(***************************************************************************)
(* The page reader: results, byte-range reads and construction.            *)
(*                                                                         *)
(* A readable stream (the T: Read of the reader) is the sequence of the    *)
(* pages that lie ahead of its position.  A page on disk is a record       *)
(*   type, num_values          from its header                             *)
(*   compressed_page_size      the body length its header announces        *)
(*   body, body_len            the body bytes that are in the stream       *)
(*   offset                    where its header starts in the file         *)
(* Result<Option<X>> is [kind |-> "Some", item |-> x], [kind |-> "None"]   *)
(* or [kind |-> "Err"]; Result<()> is [kind |-> "Ok"] or an error; a panic *)
(* is [kind |-> "Panic"].                                                  *)
(***************************************************************************)
OkNone == [kind |-> "None"]
OkSome(x) == [kind |-> "Some", item |-> x]
OkUnit == [kind |-> "Ok"]
Err(e) == [kind |-> "Err", err |-> e]
Panicked == [kind |-> "Panic"]

DataPageTypes == {"DATA_PAGE", "DATA_PAGE_V2"}

\* mutant: the stream starts at the front of the file whatever `start` is
get_read_from_front(pages, start, length) ==
    SelectSeq(pages, LAMBDA pg : pg.offset < start + length)

\* ChunkReader::get_read(start, length): the pages of the file in that byte range
get_read(pages, start, length) ==
    SelectSeq(pages, LAMBDA pg : start <= pg.offset /\ pg.offset < start + length)

\* page_util::get_pages_readable_slices: one slice per page location, after
\* a slice for the bytes before the first data page if there are any
get_pages_readable_slices(col_chunk_offset_index, col_start, pages) ==
    LET first_data_page_offset == col_chunk_offset_index[1].offset
        has_dictionary_page == first_data_page_offset # col_start
    IN  [has_dict |-> has_dictionary_page,
         page_bufs |->
            (IF has_dictionary_page
             THEN <<get_read(pages, col_start, first_data_page_offset - col_start)>>
             ELSE <<>>)
            \o [k \in 1..Len(col_chunk_offset_index) |->
                   get_read(pages, col_chunk_offset_index[k].offset,
                            col_chunk_offset_index[k].compressed_page_size)]]

\* create_codec: no codec for an uncompressed column
create_codec(compression) ==
    IF compression = "UNCOMPRESSED" THEN None ELSE Some(compression)

\* SerializedPageReader::new
SerializedPageReader_new(buf, total_num_values, compression) ==
    [buf |-> buf,
     decompressor |-> create_codec(compression),
     total_num_values |-> total_num_values,
     seen_num_values |-> 0,
     page_offset_index |-> None,
     seen_num_data_pages |-> 0,
     has_dictionary_page_to_read |-> FALSE,
     page_bufs |-> <<>>]

\* SerializedPageReader::new_with_page_offsets
new_with_page_offsets(buf, total_num_values, compression, locations, has_dict, page_bufs) ==
    [buf |-> buf,
     decompressor |-> create_codec(compression),
     total_num_values |-> total_num_values,
     seen_num_values |-> 0,
     page_offset_index |-> Some(locations),
     seen_num_data_pages |-> 0,
     has_dictionary_page_to_read |-> has_dict,
     page_bufs |-> page_bufs]

\* SerializedRowGroupReader::get_column_page_reader for the column chunk col
get_column_page_reader(col) ==
    LET file_chunk == get_read(col.pages, col.col_start, col.col_length) IN
    IF is_null(col.page_offset_index)
    THEN SerializedPageReader_new(file_chunk, col.num_values, col.compression)
    ELSE LET slices == get_pages_readable_slices(col.page_offset_index[1],
                                                 col.col_start, col.pages)
         IN  new_with_page_offsets(file_chunk, col.num_values, col.compression,
                                   col.page_offset_index[1],
                                   slices.has_dict, slices.page_bufs)

(***************************************************************************)
(* Decompression and decode_page.                                          *)
(*                                                                         *)
(* A page body is a sequence of bytes.  The codec of the model is a run    *)
(* length code: the byte b > 0 stands for b bytes b, the byte 0 is not a   *)
(* code word.  A PageHeader carries type, compressed_page_size,            *)
(* uncompressed_page_size and the three optional headers                   *)
(* data_page_header, data_page_header_v2 and dictionary_page_header.       *)
(* decode_page returns Ok(page) as [kind |-> "Some", item |-> page], the   *)
(* shape in which get_next_page hands it on; `offset`, the place of the    *)
(* page in the file, is carried along to tell the pages apart.             *)
(***************************************************************************)
Bytes == 0..2

Decompressed(out) == [kind |-> "Ok", out |-> out]

\* Codec::decompress(input_buf, output_buf): appends the uncompressed payload
RECURSIVE decompress(_, _)
decompress(input_buf, output_buf) ==
    IF input_buf = <<>> THEN Decompressed(output_buf)
    ELSE IF Head(input_buf) = 0 THEN Err("decompress")
    ELSE decompress(Tail(input_buf),
                    output_buf \o [k \in 1..Head(input_buf) |-> Head(input_buf)])

unwrap_or(option, default) == IF is_null(option) THEN default ELSE option[1]

\* mutant: the level bytes are handed to the codec with the rest
levels_offset_zero(page_header) == 0

\* lines 406-411: the uncompressed bytes at the front of a v2 page body
levels_offset(page_header) ==
    IF is_null(page_header.data_page_header_v2) THEN 0
    ELSE as_usize(page_header.data_page_header_v2[1].definition_levels_byte_length
                  + page_header.data_page_header_v2[1].repetition_levels_byte_length)

\* mutant: the is_compressed flag is not looked at
can_decompress_always(page_header) == TRUE

\* lines 407-414
can_decompress(page_header) ==
    IF is_null(page_header.data_page_header_v2) THEN TRUE
    ELSE unwrap_or(page_header.data_page_header_v2[1].is_compressed, TRUE)

\* mutant: the length of what the codec wrote is not compared
decompress_body_unchecked(page_header, buffer, decompressor) ==
    IF ~is_null(decompressor) /\ can_decompress(page_header)
    THEN LET offset == levels_offset(page_header) IN
         IF page_header.uncompressed_page_size < 0 \/ offset > Len(buffer)
         THEN Panicked
         ELSE decompress(SubSeq(buffer, offset + 1, Len(buffer)),
                         SubSeq(buffer, 1, offset))
    ELSE Decompressed(buffer)

\* lines 418-437: Vec::with_capacity and the two slices panic on sizes that
\* are out of range
decompress_body(page_header, buffer, decompressor) ==
    IF ~is_null(decompressor) /\ can_decompress(page_header)
    THEN LET uncompressed_size == page_header.uncompressed_page_size
             offset == levels_offset(page_header)
         IN  IF uncompressed_size < 0 \/ offset > Len(buffer)
             THEN Panicked
             ELSE LET decompressed ==
                          decompress(SubSeq(buffer, offset + 1, Len(buffer)),
                                     SubSeq(buffer, 1, offset))
                  IN  IF decompressed.kind # "Ok" THEN decompressed
                      ELSE IF Len(decompressed.out) # uncompressed_size
                      THEN Err("Actual decompressed size doesn't match the expected one")
                      ELSE decompressed
    ELSE Decompressed(buffer)

\* lines 439-483: the page of the header's type around the buffer
make_page(page_header, buffer) ==
    IF page_header.type = "DICTIONARY_PAGE"
    THEN IF is_null(page_header.dictionary_page_header) THEN Panicked
         ELSE OkSome([type |-> page_header.type,
                      buf |-> buffer,
                      num_values |-> page_header.dictionary_page_header[1].num_values,
                      offset |-> page_header.offset])
    ELSE IF page_header.type = "DATA_PAGE"
    THEN IF is_null(page_header.data_page_header) THEN Panicked
         ELSE OkSome([type |-> page_header.type,
                      buf |-> buffer,
                      num_values |-> page_header.data_page_header[1].num_values,
                      offset |-> page_header.offset])
    ELSE IF page_header.type = "DATA_PAGE_V2"
    THEN IF is_null(page_header.data_page_header_v2) THEN Panicked
         ELSE LET header == page_header.data_page_header_v2[1] IN
              OkSome([type |-> page_header.type,
                      buf |-> buffer,
                      num_values |-> header.num_values,
                      def_levels_byte_len |-> header.definition_levels_byte_length,
                      rep_levels_byte_len |-> header.repetition_levels_byte_length,
                      is_compressed |-> unwrap_or(header.is_compressed, TRUE),
                      offset |-> page_header.offset])
    ELSE Panicked

decode_page(page_header, buffer, decompressor) ==
    LET body == decompress_body(page_header, buffer, decompressor) IN
    IF body.kind # "Ok" THEN body ELSE make_page(page_header, body.out)

(***************************************************************************)
(* SerializedPageReader::get_next_page                                     *)
(***************************************************************************)
\* lines 582-595: which stream the page is read from
select_cursor(r) ==
    IF is_null(r.page_offset_index) THEN "buf"
    ELSE IF Len(r.page_offset_index[1]) <= r.seen_num_data_pages THEN "none"
    ELSE IF r.seen_num_data_pages = 0 /\ r.has_dictionary_page_to_read
    THEN (IF r.page_bufs = <<>> THEN "panic" ELSE "dictionary")
    ELSE (IF r.seen_num_data_pages >= Len(r.page_bufs) THEN "panic" ELSE "slice")

cursor_stream(r, c) ==
    IF c = "buf" THEN r.buf
    ELSE IF c = "dictionary" THEN Head(r.page_bufs)
    ELSE r.page_bufs[r.seen_num_data_pages + 1]

\* the reader once the dictionary slice has been popped off page_bufs
popped(r, c) ==
    IF c = "dictionary" THEN [r EXCEPT !.page_bufs = Tail(@)] ELSE r

\* the reader once the cursor has moved past the page at its head
\* mutant: a data page read from the contiguous buffer stays ahead of the cursor
advanced_in_place(r, c) ==
    IF c = "buf"
    THEN (IF Head(r.buf).type \in DataPageTypes THEN r
          ELSE [r EXCEPT !.buf = Tail(@)])
    ELSE IF c = "dictionary" THEN [r EXCEPT !.page_bufs = Tail(@)]
    ELSE [r EXCEPT !.page_bufs[r.seen_num_data_pages + 1] = Tail(@)]

advanced(r, c) ==
    IF c = "buf" THEN [r EXCEPT !.buf = Tail(@)]
    ELSE IF c = "dictionary" THEN [r EXCEPT !.page_bufs = Tail(@)]
    ELSE [r EXCEPT !.page_bufs[r.seen_num_data_pages + 1] = Tail(@)]

Continue == [kind |-> "Continue"]

\* mutant: a page of an unknown type ends the chunk
on_page_ending_at_unknown(r, page_header, buffer) ==
    IF page_header.type \in DataPageTypes
    THEN LET decoded == decode_page(page_header, buffer, r.decompressor) IN
         IF decoded.kind # "Some"
         THEN [reader |-> r, ret |-> decoded]
         ELSE [reader |->
                 [r EXCEPT !.seen_num_values = @ + decoded.item.num_values,
                           !.seen_num_data_pages = @ + 1],
               ret |-> decoded]
    ELSE IF page_header.type = "DICTIONARY_PAGE"
    THEN [reader |-> [r EXCEPT !.has_dictionary_page_to_read = FALSE],
          ret |-> decode_page(page_header, buffer, r.decompressor)]
    ELSE [reader |-> r, ret |-> OkNone]

\* mutant: the values of a dictionary page are counted as seen, too
on_page_counting_dictionary(r, page_header, buffer) ==
    IF page_header.type \in DataPageTypes \cup {"DICTIONARY_PAGE"}
    THEN LET decoded == decode_page(page_header, buffer, r.decompressor) IN
         IF decoded.kind # "Some"
         THEN [reader |-> r, ret |-> decoded]
         ELSE [reader |->
                 [r EXCEPT !.seen_num_values = @ + decoded.item.num_values,
                           !.seen_num_data_pages =
                              IF page_header.type = "DICTIONARY_PAGE" THEN @ ELSE @ + 1,
                           !.has_dictionary_page_to_read =
                              IF page_header.type = "DICTIONARY_PAGE" THEN FALSE ELSE @],
               ret |-> decoded]
    ELSE [reader |-> r, ret |-> Continue]

\* mutant: a dictionary page is returned with the flag left as it was
on_page_keeping_dictionary_flag(r, page_header, buffer) ==
    IF page_header.type \in DataPageTypes
    THEN LET decoded == decode_page(page_header, buffer, r.decompressor) IN
         IF decoded.kind # "Some"
         THEN [reader |-> r, ret |-> decoded]
         ELSE [reader |->
                 [r EXCEPT !.seen_num_values = @ + decoded.item.num_values,
                           !.seen_num_data_pages = @ + 1],
               ret |-> decoded]
    ELSE IF page_header.type = "DICTIONARY_PAGE"
    THEN [reader |-> r,
          ret |-> decode_page(page_header, buffer, r.decompressor)]
    ELSE [reader |-> r, ret |-> Continue]

\* lines 612-637: the match on the page type
on_page(r, page_header, buffer) ==
    IF page_header.type \in DataPageTypes
    THEN LET decoded == decode_page(page_header, buffer, r.decompressor) IN
         IF decoded.kind # "Some"
         THEN [reader |-> r, ret |-> decoded]
         ELSE [reader |->
                 [r EXCEPT !.seen_num_values = @ + decoded.item.num_values,
                           !.seen_num_data_pages = @ + 1],
               ret |-> decoded]
    ELSE IF page_header.type = "DICTIONARY_PAGE"
    THEN [reader |-> [r EXCEPT !.has_dictionary_page_to_read = FALSE],
          ret |-> decode_page(page_header, buffer, r.decompressor)]
    ELSE [reader |-> r, ret |-> Continue]

\* mutant: the loop goes on while seen_num_values <= total_num_values
more_to_read_inclusive(r) == r.seen_num_values <= r.total_num_values

\* the condition of the while loop
more_to_read(r) == r.seen_num_values < r.total_num_values

\* the while loop from its condition on; `continue` re-enters it.
\* Vec::with_capacity(to_read) panics on a negative compressed_page_size,
\* which the cast to usize makes larger than any buffer.
RECURSIVE get_next_page(_)
get_next_page(r) ==
    IF ~more_to_read(r) THEN [reader |-> r, ret |-> OkNone]
    ELSE LET c == select_cursor(r) IN
         IF c = "none" THEN [reader |-> r, ret |-> OkNone]
         ELSE IF c = "panic" THEN [reader |-> r, ret |-> Panicked]
         ELSE LET stream == cursor_stream(r, c) IN
              IF stream = <<>>
              THEN [reader |-> popped(r, c), ret |-> Err("read_page_header")]
              ELSE LET page_header == Head(stream) IN
                   IF page_header.compressed_page_size < 0
                   THEN [reader |-> popped(r, c), ret |-> Panicked]
                   ELSE IF page_header.body_len # page_header.compressed_page_size
                   THEN [reader |-> advanced(r, c), ret |-> Err("eof")]
                   ELSE LET step == on_page(advanced(r, c), page_header,
                                            page_header.body) IN
                        IF step.ret = Continue
                        THEN get_next_page(step.reader)
                        ELSE step

(***************************************************************************)
(* SerializedPageReader::peek_next_page and skip_next_page                 *)
(***************************************************************************)
\* page_util::calculate_row_count
calculate_row_count(indexes, page_num, total_row_count_arg) ==
    IF page_num = Len(indexes) - 1
    THEN total_row_count_arg - indexes[page_num + 1].first_row_index
    ELSE indexes[page_num + 2].first_row_index - indexes[page_num + 1].first_row_index

\* mutant: announcing the dictionary page marks it as read
peek_next_page_marking_read(r) ==
    IF ~is_null(r.page_offset_index)
    THEN IF r.seen_num_data_pages = Len(r.page_offset_index[1])
         THEN [reader |-> r, ret |-> OkNone]
         ELSE IF r.seen_num_data_pages = 0 /\ r.has_dictionary_page_to_read
         THEN [reader |-> [r EXCEPT !.has_dictionary_page_to_read = FALSE],
               ret |-> OkSome([num_rows |-> 0, is_dict |-> TRUE])]
         ELSE [reader |-> r,
               ret |-> OkSome([num_rows |->
                                  calculate_row_count(r.page_offset_index[1],
                                      r.seen_num_data_pages, r.total_num_values),
                               is_dict |-> FALSE])]
    ELSE [reader |-> r, ret |-> Err("Must set page_offset_index")]

\* mutant: the dictionary page is announced as long as it is unread
peek_next_page_while_unread(r) ==
    IF ~is_null(r.page_offset_index)
    THEN IF r.seen_num_data_pages = Len(r.page_offset_index[1])
         THEN [reader |-> r, ret |-> OkNone]
         ELSE IF r.has_dictionary_page_to_read
         THEN [reader |-> r, ret |-> OkSome([num_rows |-> 0, is_dict |-> TRUE])]
         ELSE [reader |-> r,
               ret |-> OkSome([num_rows |->
                                  calculate_row_count(r.page_offset_index[1],
                                      r.seen_num_data_pages, r.total_num_values),
                               is_dict |-> FALSE])]
    ELSE [reader |-> r, ret |-> Err("Must set page_offset_index")]

\* mutant: the rows of a page are counted up to the end of the chunk
peek_next_page_rows_to_end(r) ==
    IF ~is_null(r.page_offset_index)
    THEN IF r.seen_num_data_pages = Len(r.page_offset_index[1])
         THEN [reader |-> r, ret |-> OkNone]
         ELSE IF r.seen_num_data_pages = 0 /\ r.has_dictionary_page_to_read
         THEN [reader |-> r, ret |-> OkSome([num_rows |-> 0, is_dict |-> TRUE])]
         ELSE [reader |-> r,
               ret |-> OkSome([num_rows |->
                                  r.total_num_values
                                  - r.page_offset_index[1][r.seen_num_data_pages + 1]
                                        .first_row_index,
                               is_dict |-> FALSE])]
    ELSE [reader |-> r, ret |-> Err("Must set page_offset_index")]

peek_next_page(r) ==
    IF ~is_null(r.page_offset_index)
    THEN IF r.seen_num_data_pages = Len(r.page_offset_index[1])
         THEN [reader |-> r, ret |-> OkNone]
         ELSE IF r.seen_num_data_pages = 0 /\ r.has_dictionary_page_to_read
         THEN [reader |-> r, ret |-> OkSome([num_rows |-> 0, is_dict |-> TRUE])]
         ELSE [reader |-> r,
               ret |-> OkSome([num_rows |->
                                  calculate_row_count(r.page_offset_index[1],
                                      r.seen_num_data_pages, r.total_num_values),
                               is_dict |-> FALSE])]
    ELSE [reader |-> r, ret |-> Err("Must set page_offset_index")]

\* mutant: with the page index set the page is counted as skipped, whatever
\* the number of pages counted so far
skip_next_page_unchecked(r) ==
    IF ~is_null(r.page_offset_index)
    THEN [reader |-> [r EXCEPT !.seen_num_data_pages = @ + 1], ret |-> OkUnit]
    ELSE [reader |-> r, ret |-> Err("Must set page_offset_index")]

\* mutant: without a page index the page is counted as skipped all the same
skip_next_page_without_index(r) ==
    IF ~is_null(r.page_offset_index)
    THEN IF Len(r.page_offset_index[1]) <= r.seen_num_data_pages
         THEN [reader |-> r, ret |-> Err("seen_num_data_pages is out of bound")]
         ELSE [reader |-> [r EXCEPT !.seen_num_data_pages = @ + 1], ret |-> OkUnit]
    ELSE [reader |-> [r EXCEPT !.seen_num_data_pages = @ + 1], ret |-> OkUnit]

\* mutant: the bound check is off by one
skip_next_page_past_end(r) ==
    IF ~is_null(r.page_offset_index)
    THEN IF Len(r.page_offset_index[1]) < r.seen_num_data_pages
         THEN [reader |-> r, ret |-> Err("seen_num_data_pages is out of bound")]
         ELSE [reader |-> [r EXCEPT !.seen_num_data_pages = @ + 1], ret |-> OkUnit]
    ELSE [reader |-> r, ret |-> Err("Must set page_offset_index")]

\* mutant: the skipped page's slice is dropped from page_bufs
skip_next_page_dropping_slice(r) ==
    IF ~is_null(r.page_offset_index)
    THEN IF Len(r.page_offset_index[1]) <= r.seen_num_data_pages
         THEN [reader |-> r, ret |-> Err("seen_num_data_pages is out of bound")]
         ELSE [reader |-> [r EXCEPT !.seen_num_data_pages = @ + 1,
                                    !.page_bufs = IF @ = <<>> THEN @ ELSE Tail(@)],
               ret |-> OkUnit]
    ELSE [reader |-> r, ret |-> Err("Must set page_offset_index")]

\* mutant: the page is not counted as seen
skip_next_page_not_counting(r) ==
    IF ~is_null(r.page_offset_index)
    THEN IF Len(r.page_offset_index[1]) <= r.seen_num_data_pages
         THEN [reader |-> r, ret |-> Err("seen_num_data_pages is out of bound")]
         ELSE [reader |-> r, ret |-> OkUnit]
    ELSE [reader |-> r, ret |-> Err("Must set page_offset_index")]

skip_next_page(r) ==
    IF ~is_null(r.page_offset_index)
    THEN IF Len(r.page_offset_index[1]) <= r.seen_num_data_pages
         THEN [reader |-> r, ret |-> Err("seen_num_data_pages is out of bound")]
         ELSE [reader |-> [r EXCEPT !.seen_num_data_pages = @ + 1], ret |-> OkUnit]
    ELSE [reader |-> r, ret |-> Err("Must set page_offset_index")]

(***************************************************************************)
(* Inputs                                                                  *)
(***************************************************************************)
RunEndSlots == {None} \cup {Some(v) : v \in RunEndItems}
ValueSlots == {None} \cup {Some(v) : v \in ValueItems}

\* page locations: first_row_index strictly ascending; the pages lie end to
\* end from ChunkStart on, each CompressedSize bytes long
ChunkStart == 4
CompressedSize == 2

PageLocations(firsts) ==
    [k \in 1..Len(firsts) |->
        [offset |-> ChunkStart + (k - 1) * CompressedSize,
         compressed_page_size |-> CompressedSize,
         first_row_index |-> firsts[k]]]

AscendingRows ==
    {f \in SeqsUpTo(0..MaxRow, MaxPages) :
        \A k \in 1..(Len(f) - 1) : f[k] < f[k + 1]}

\* RowRanges: closed intervals, sorted and disjoint
Intervals == {Range_new(lo, hi) : lo \in 0..(MaxRow + 2), hi \in 0..(MaxRow + 2)}
RowRangesSet ==
    {rr \in SeqsUpTo({r \in Intervals : r.from <= r.to}, MaxRanges) :
        \A k \in 1..(Len(rr) - 1) : rr[k].to < rr[k + 1].from}

\* a chunk laid out from first_offset on: page k is sizes[k] bytes long and
\* gaps[k] bytes lie between it and page k + 1; every page holds one row
RECURSIVE OffsetOfPage(_, _, _, _)
OffsetOfPage(first_offset, sizes, gaps, k) ==
    IF k = 1 THEN first_offset
    ELSE OffsetOfPage(first_offset, sizes, gaps, k - 1) + sizes[k - 1] + gaps[k - 1]

LaidOutPages(first_offset, sizes, gaps) ==
    [k \in 1..Len(sizes) |->
        [offset |-> OffsetOfPage(first_offset, sizes, gaps, k),
         compressed_page_size |-> sizes[k],
         first_row_index |-> k - 1]]

\* the body of every page of a chunk: code words of the codec
PageBody == [k \in 1..(CompressedSize - 1) |-> 2]

\* a page as it lies in the file: a header of one byte, which carries the
\* header of its type, and its body; `compressed` tells whether the column
\* has a codec
PageOnDisk(type, num_values, offset, compressed) ==
    [type |-> type,
     num_values |-> num_values,
     compressed_page_size |-> Len(PageBody),
     uncompressed_page_size |->
        IF compressed THEN Len(decompress(PageBody, <<>>).out) ELSE Len(PageBody),
     data_page_header |->
        IF type = "DATA_PAGE" THEN Some([num_values |-> num_values]) ELSE None,
     data_page_header_v2 |->
        IF type = "DATA_PAGE_V2"
        THEN Some([num_values |-> num_values,
                   definition_levels_byte_length |-> 0,
                   repetition_levels_byte_length |-> 0,
                   is_compressed |-> None])
        ELSE None,
     dictionary_page_header |->
        IF type = "DICTIONARY_PAGE" THEN Some([num_values |-> num_values]) ELSE None,
     body |-> PageBody,
     body_len |-> Len(PageBody),
     offset |-> offset]

\* the k-th page of a chunk (from 1) starts here
PageOffset(k) == ChunkStart + (k - 1) * CompressedSize

RECURSIVE SumValues(_)
SumValues(pages) ==
    IF pages = <<>> THEN 0 ELSE Head(pages).num_values + SumValues(Tail(pages))

IsDataPage(pg) == pg.type \in DataPageTypes
DataPagesOf(pages) == SelectSeq(pages, IsDataPage)

\* the types of the data part of a chunk: data pages of one version, with
\* at most one page of a type the reader does not know among them
DataTypeLayouts ==
    UNION {
        {[k \in 1..n |-> v] : v \in DataPageTypes}
        \cup {[k \in 1..(n + 1) |-> IF k = u THEN "INDEX_PAGE" ELSE v] :
                  v \in DataPageTypes, u \in 1..n}
        : n \in 0..MaxDataPages}

\* the types of the pages of a chunk: the dictionary page, if there is one,
\* comes first and is followed by the data pages it encodes
PageTypeLayouts ==
    DataTypeLayouts
    \cup {<<"DICTIONARY_PAGE">> \o data : data \in DataTypeLayouts \ {<<>>}}

PagesOfLayout(types, counts, compressed) ==
    [k \in 1..Len(types) |->
        PageOnDisk(types[k], counts[k], PageOffset(k), compressed)]

\* the offset index of a chunk: one PageLocation per data page, the rows
\* of a page being its values
RECURSIVE LocationsOf(_, _)
LocationsOf(pages, first_row_index) ==
    IF pages = <<>> THEN <<>>
    ELSE IF IsDataPage(Head(pages))
    THEN <<[offset |-> Head(pages).offset,
            compressed_page_size |-> CompressedSize,
            first_row_index |-> first_row_index]>>
         \o LocationsOf(Tail(pages), first_row_index + Head(pages).num_values)
    ELSE LocationsOf(Tail(pages), first_row_index)

\* the metadata and the bytes of a column chunk
ColumnChunk(pages, with_index, compressed) ==
    [pages |-> pages,
     compression |-> IF compressed THEN "SNAPPY" ELSE "UNCOMPRESSED",
     col_start |-> ChunkStart,
     col_length |-> Len(pages) * CompressedSize,
     num_values |-> SumValues(DataPagesOf(pages)),
     page_offset_index |->
        IF with_index THEN Some(LocationsOf(pages, 0)) ELSE None]

\* the chunks a reader is built on: every page holds at least one value; a
\* chunk read through the page index has a data page and no unknown page
IndexableLayout(types) ==
    /\ \E k \in 1..Len(types) : types[k] \in DataPageTypes
    /\ \A k \in 1..Len(types) : types[k] # "INDEX_PAGE"

ColumnChunks ==
    {ColumnChunk(PagesOfLayout(tc[1], tc[2], tc[4]), tc[3], tc[4]) :
        tc \in {x \in PageTypeLayouts \X SeqsUpTo(1..MaxValues, MaxDataPages + 2)
                       \X BOOLEAN \X BOOLEAN :
                    /\ Len(x[1]) = Len(x[2])
                    /\ x[3] => IndexableLayout(x[1])}}

NoCall == [op |-> "none"]

(***************************************************************************)
(* Actions on the REE array                                                *)
(***************************************************************************)
TryNew ==
    /\ LET r == try_new(run_ends, values) IN
        /\ array' = IF r.ok THEN Some(r.array) ELSE None
        /\ result' = IF r.ok THEN [op |-> "try_new", ok |-> TRUE]
                     ELSE [op |-> "try_new", ok |-> FALSE, err |-> r.err]
    /\ UNCHANGED <<run_ends, values, input, filter_vars, reader_vars, file_vars, search_vars>>

FromIter ==
    /\ array' = Some(from_iter(input))
    /\ result' = [op |-> "from_iter"]
    /\ UNCHANGED <<run_ends, values, input, filter_vars, reader_vars, file_vars, search_vars>>

GetPhysicalIndex(logical_index) ==
    /\ array # None
    /\ result' = [op |-> "get_physical_index", arg |-> logical_index,
                  ret |-> get_physical_index(array[1], logical_index)]
    /\ UNCHANGED <<ree_vars, filter_vars, reader_vars, file_vars, search_vars>>

Value(logical_index) ==
    /\ array # None
    /\ result' = [op |-> "value", arg |-> logical_index,
                  ret |-> typed_value(array[1], logical_index)]
    /\ UNCHANGED <<ree_vars, filter_vars, reader_vars, file_vars, search_vars>>

(***************************************************************************)
(* Actions on the page-index pruner                                        *)
(***************************************************************************)
FilterTryNew ==
    /\ LET r == filter_try_new(offset_index, ranges, total_row_count) IN
        /\ filter' = IF r.panic THEN None ELSE Some(r.item)
        /\ result' = [op |-> "filter_try_new", panic |-> r.panic]
    /\ UNCHANGED <<ree_vars, offset_index, ranges, total_row_count, reader_vars, file_vars, search_vars>>

GetPageCount ==
    /\ filter # None
    /\ result' = [op |-> "get_page_count", ret |-> Len(filter[1].index_map)]
    /\ UNCHANGED <<ree_vars, filter_vars, reader_vars, file_vars, search_vars>>

GetFirstRowIndex(page_index) ==
    /\ filter # None
    /\ result' = [op |-> "get_first_row_index", arg |-> page_index,
                  ret |-> get_first_row_index(filter[1], page_index)]
    /\ UNCHANGED <<ree_vars, filter_vars, reader_vars, file_vars, search_vars>>

GetLastRowIndex(page_index) ==
    /\ filter # None
    /\ result' = [op |-> "get_last_row_index", arg |-> page_index,
                  ret |-> get_last_row_index(filter[1], page_index,
                                             total_row_count)]
    /\ UNCHANGED <<ree_vars, filter_vars, reader_vars, file_vars, search_vars>>

\* row_group_offset is the start of the column chunk: at or before its first page
CalculateOffsetRange(row_group_offset) ==
    /\ filter # None
    /\ offset_index # <<>> => row_group_offset <= offset_index[1].offset
    /\ result' = [op |-> "calculate_offset_range", arg |-> row_group_offset,
                  ret |-> calculate_offset_range(filter[1], row_group_offset)]
    /\ UNCHANGED <<ree_vars, filter_vars, reader_vars, file_vars, search_vars>>

\* the ways a page of a file is damaged: its body is cut short, its header
\* lacks the header of its type, or its header announces a negative size or
\* an uncompressed size its body does not have
Damages == {"short_body", "no_type_header", "negative_size", "wrong_size"}

Damage(pg, kind) ==
    IF kind = "short_body"
    THEN [pg EXCEPT !.body = SubSeq(@, 1, Len(@) - 1), !.body_len = @ - 1]
    ELSE IF kind = "no_type_header"
    THEN [pg EXCEPT !.data_page_header = None,
                    !.data_page_header_v2 = None,
                    !.dictionary_page_header = None]
    ELSE IF kind = "wrong_size"
    THEN [pg EXCEPT !.uncompressed_page_size = @ + 1]
    ELSE [pg EXCEPT !.compressed_page_size = 0 - 1]

\* the chunk col with its k-th page damaged; its metadata is as it was
Damaged(col, k, kind) ==
    [col EXCEPT !.pages[k] = Damage(@, kind)]

\* chunks of pages of one value each, one page of which is damaged
CorruptChunks ==
    {Damaged(col, k, kind) :
        <<col, k>> \in {ck \in ColumnChunks \X (1..(MaxDataPages + 2)) :
                          /\ ck[2] <= Len(ck[1].pages)
                          /\ \A j \in 1..Len(ck[1].pages) :
                                ck[1].pages[j].num_values = 1},
        kind \in Damages}

\* the page headers decode_page is given: a header of a known type with
\* the header of that type in it
DecodeHeader(type, uncompressed_page_size, def_len, rep_len, is_compressed) ==
    [type |-> type,
     uncompressed_page_size |-> uncompressed_page_size,
     data_page_header |->
        IF type = "DATA_PAGE" THEN Some([num_values |-> MaxValues]) ELSE None,
     data_page_header_v2 |->
        IF type = "DATA_PAGE_V2"
        THEN Some([num_values |-> MaxValues,
                   definition_levels_byte_length |-> def_len,
                   repetition_levels_byte_length |-> rep_len,
                   is_compressed |-> is_compressed])
        ELSE None,
     dictionary_page_header |->
        IF type = "DICTIONARY_PAGE" THEN Some([num_values |-> MaxValues]) ELSE None,
     offset |-> ChunkStart]

\* the longest body the codec can write from MaxBody bytes
MaxUncompressed == 2 * MaxBody

DecodeHeaders ==
    {DecodeHeader(type, size, 0, 0, None) :
        type \in {"DICTIONARY_PAGE", "DATA_PAGE"}, size \in 0..MaxUncompressed}
    \cup {DecodeHeader("DATA_PAGE_V2", size, def_len, rep_len, is_compressed) :
            size \in 0..MaxUncompressed,
            def_len \in 0..MaxLevelBytes, rep_len \in 0..MaxLevelBytes,
            is_compressed \in {None, Some(TRUE), Some(FALSE)}}

DecodePage ==
    /\ decoding # None
    /\ result = NoCall
    /\ result' = [op |-> "decode_page",
                  ret |-> decode_page(decoding[1].page_header, decoding[1].buffer,
                                      decoding[1].decompressor)]
    /\ UNCHANGED <<ree_vars, filter_vars, reader_vars, file_vars, search_vars>>

\* the column chunk col, its bytes moved back by delta
ShiftChunk(col, delta) ==
    [col EXCEPT
        !.pages = [k \in 1..Len(@) |-> [@[k] EXCEPT !.offset = @ + delta]],
        !.col_start = @ + delta,
        !.page_offset_index =
            IF is_null(@) THEN None
            ELSE Some([k \in 1..Len(@[1]) |-> [@[1][k] EXCEPT !.offset = @ + delta]])]

\* the chunks of the columns of a row group: uncompressed, one value a page
RowGroupChunks ==
    {col \in ColumnChunks :
        /\ col.compression = "UNCOMPRESSED"
        /\ \A k \in 1..Len(col.pages) : col.pages[k].num_values = 1}

\* two columns that lie one after the other in one file; `pages` of a
\* column's metadata is what the shared chunk reader holds: the whole file
RowGroupColumns(first, second) ==
    LET moved == ShiftChunk(second, first.col_length)
        file == first.pages \o moved.pages
    IN  <<[first EXCEPT !.pages = file], [moved EXCEPT !.pages = file]>>

\* row_group.get_column_page_reader(i)
GetColumnPageReader(i) ==
    /\ i \in 1..Len(columns)
    /\ page_readers[i] = None
    /\ page_readers' =
          [page_readers EXCEPT ![i] = Some(get_column_page_reader(columns[i]))]
    /\ UNCHANGED <<ree_vars, filter_vars, reader_vars, result,
                   decoding, options_vars, columns, yielded, records_vars, search_vars>>

\* get_next_page on the page reader of column i
ColumnGetNextPage(i) ==
    /\ i \in 1..Len(columns)
    /\ page_readers[i] # None
    /\ Len(yielded[i]) < MaxCalls
    /\ LET call == get_next_page(page_readers[i][1]) IN
         /\ page_readers' = [page_readers EXCEPT ![i] = Some(call.reader)]
         /\ yielded' = [yielded EXCEPT ![i] = Append(@, call.ret)]
    /\ UNCHANGED <<ree_vars, filter_vars, reader_vars, result,
                   decoding, options_vars, columns, records_vars, search_vars>>

\* a call on the page reader; none is made once a call has panicked
ReaderCallable ==
    /\ reader # None
    /\ IF result.op = "none" THEN TRUE ELSE result.ret.kind # "Panic"

Called(op, call) ==
    /\ result' = [op |-> op, ret |-> call.ret,
                  before |-> reader[1], ended_before |-> ended]
    /\ reader' = Some(call.reader)

GetNextPage ==
    /\ ReaderCallable
    /\ LET call == get_next_page(reader[1]) IN
         /\ Called("get_next_page", call)
         /\ emitted' = IF call.ret.kind = "Some"
                       THEN Append(emitted, call.ret.item) ELSE emitted
         /\ ended' = (ended \/ call.ret = OkNone)
    /\ UNCHANGED <<ree_vars, filter_vars, chunk, skips, file_vars, search_vars>>

PeekNextPage ==
    /\ ReaderCallable
    /\ Called("peek_next_page", peek_next_page(reader[1]))
    /\ UNCHANGED <<ree_vars, filter_vars, chunk, emitted, ended, skips, file_vars, search_vars>>

SkipNextPage ==
    /\ ReaderCallable
    /\ LET call == skip_next_page(reader[1]) IN
         /\ Called("skip_next_page", call)
         /\ skips' = IF call.ret = OkUnit THEN skips + 1 ELSE skips
    /\ UNCHANGED <<ree_vars, filter_vars, chunk, emitted, ended, file_vars, search_vars>>

(***************************************************************************)
(* ReadOptionsBuilder, ReadOptions and SerializedFileReader::new_with_options *)
(***************************************************************************)
\* a predicate is a boxed FnMut(&RowGroupMetaData, usize) -> bool: a record of
\* what the closure captured; calling it yields what it returned and the
\* closure as the call left it
get_midpoint_offset(meta) ==
    LET col == meta.columns[1]
        offset == col.data_page_offset
        from == IF col.dictionary_page_offset # None
                THEN IF offset > col.dictionary_page_offset[1]
                     THEN col.dictionary_page_offset[1] ELSE offset
                ELSE offset
    IN from + meta.compressed_size \div 2

\* the closure with_range builds
range_predicate(start, end) == [kind |-> "range", start |-> start, end |-> end]

\* predicate(&rg_meta, i)
call_predicate(predicate, rg_meta, i) ==
    CASE predicate.kind = "range" ->
           LET mid == get_midpoint_offset(rg_meta) IN
             [ret |-> (mid >= predicate.start /\ mid < predicate.end),
              next |-> predicate]
      [] predicate.kind = "const" ->
           [ret |-> predicate.value, next |-> predicate]
      [] predicate.kind = "skip" ->
           [ret |-> (i # predicate.index), next |-> predicate]
      [] predicate.kind = "take" ->
           [ret |-> (predicate.remaining > 0),
            next |-> IF predicate.remaining > 0
                     THEN [predicate EXCEPT !.remaining = @ - 1]
                     ELSE predicate]

ReadOptionsBuilder_new == [predicates |-> <<>>, enable_page_index |-> FALSE]

with_predicate(self, predicate) ==
    [self EXCEPT !.predicates = Append(@, predicate)]

\* assert!(start < end) panics
with_range(self, start, end) ==
    IF ~(start < end) THEN Panicked
    ELSE [kind |-> "Ok",
          builder |-> [self EXCEPT !.predicates =
                                     Append(@, range_predicate(start, end))]]

with_page_index(self) == [self EXCEPT !.enable_page_index = TRUE]

build(self) ==
    [predicates |-> self.predicates, enable_page_index |-> self.enable_page_index]

\* the loop over the predicates for one row group, from predicate k on: keep,
\* the predicates as the calls left them, and the calls made
RECURSIVE keep_row_group_any(_, _, _, _)
keep_row_group_any(predicates, rg_meta, i, k) ==
    IF k > Len(predicates)
    THEN [keep |-> (Len(predicates) = 0), predicates |-> predicates, calls |-> <<>>]
    ELSE LET called == call_predicate(predicates[k], rg_meta, i)
             after == [predicates EXCEPT ![k] = called.next]
             logged == <<[predicate |-> k, row_group |-> i, returned |-> called.ret]>>
         IN IF called.ret
            THEN [keep |-> TRUE, predicates |-> after, calls |-> logged]
            ELSE LET rest == keep_row_group_any(after, rg_meta, i, k + 1)
                 IN [rest EXCEPT !.calls = logged \o @]

RECURSIVE keep_row_group(_, _, _, _)
keep_row_group(predicates, rg_meta, i, k) ==
    IF k > Len(predicates)
    THEN [keep |-> TRUE, predicates |-> predicates, calls |-> <<>>]
    ELSE LET called == call_predicate(predicates[k], rg_meta, i)
             after == [predicates EXCEPT ![k] = called.next]
             logged == <<[predicate |-> k, row_group |-> i, returned |-> called.ret]>>
         IN IF ~called.ret
            THEN [keep |-> FALSE, predicates |-> after, calls |-> logged]
            ELSE LET rest == keep_row_group(after, rg_meta, i, k + 1)
                 IN [rest EXCEPT !.calls = logged \o @]

\* the loop over the row groups, from the one of index i on
RECURSIVE filter_row_groups(_, _, _)
filter_row_groups(metadata_row_groups, predicates, i) ==
    IF i >= Len(metadata_row_groups)
    THEN [filtered_row_groups |-> <<>>, calls |-> <<>>]
    ELSE LET rg_meta == metadata_row_groups[i + 1]
             one == keep_row_group(predicates, rg_meta, i, 1)
             rest == filter_row_groups(metadata_row_groups, one.predicates, i + 1)
         IN [filtered_row_groups |->
                 (IF one.keep THEN <<rg_meta>> ELSE <<>>) \o rest.filtered_row_groups,
             calls |-> one.calls \o rest.calls]

\* RowGroupMetaData::set_page_offset
set_page_offset(rg, page_offset) == [rg EXCEPT !.page_offset_index = Some(page_offset)]

\* index_reader::read_pages_locations on a file whose page indexes can be read
\* or not: the locations of the pages of each column, here one page a column
read_pages_locations(readable, rg_columns) ==
    IF ~readable THEN Err("EOF")
    ELSE OkSome([c \in 1..Len(rg_columns) |->
                   <<[offset |-> rg_columns[c].data_page_offset,
                      first_row_index |-> 0]>>])

\* new_with_options on a file whose footer parses to parsed (an Err, or the row
\* groups) and whose page indexes are readable or not; calls is the record of
\* the predicate calls made
new_with_options(parsed, read_options, readable) ==
    IF parsed.kind = "Err" THEN [ret |-> parsed, calls |-> <<>>]
    ELSE LET done == filter_row_groups(parsed.item, read_options.predicates, 0)
             filtered_row_groups == done.filtered_row_groups
             pages_locations(rg) == read_pages_locations(readable, rg.columns)
         IN IF read_options.enable_page_index
            THEN IF Len(filtered_row_groups) > 0 /\ ~readable
                 THEN [ret |-> pages_locations(filtered_row_groups[1]),
                       calls |-> done.calls]
                 ELSE [ret |-> OkSome(
                          [row_groups |->
                               [j \in 1..Len(filtered_row_groups) |->
                                  set_page_offset(filtered_row_groups[j],
                                      pages_locations(filtered_row_groups[j]).item)],
                           offset_indexes |->
                               Some([j \in 1..Len(filtered_row_groups) |->
                                       pages_locations(filtered_row_groups[j]).item])]),
                       calls |-> done.calls]
            ELSE [ret |-> OkSome([row_groups |-> filtered_row_groups,
                                  offset_indexes |-> None]),
                  calls |-> done.calls]

(***************************************************************************)
(* Files of row groups, closures, and the calls on a ReadOptionsBuilder    *)
(***************************************************************************)
\* a row group holds a dictionary page and a data page, or a byte more
RowGroupSizes == {CompressedSize, CompressedSize + 1}
\* where column 0 has its dictionary page: nowhere, before its first data
\* page, or, as its metadata has it, after it
DictionaryLayouts == {"none", "before", "after"}

\* the metadata of a row group of one column that starts at byte start
RowGroupMeta(start, size, dictionary) ==
    [columns |->
        <<[data_page_offset |-> IF dictionary = "before" THEN start + 1 ELSE start,
           dictionary_page_offset |->
               CASE dictionary = "none" -> None
                 [] dictionary = "before" -> Some(start)
                 [] dictionary = "after" -> Some(start + 1)]>>,
     compressed_size |-> size,
     page_offset_index |-> None]

\* row groups that lie one after the other from byte start on
RECURSIVE RowGroupsFrom(_, _, _, _)
RowGroupsFrom(sizes, dictionaries, k, start) ==
    IF k > Len(sizes) THEN <<>>
    ELSE <<RowGroupMeta(start, sizes[k], dictionaries[k])>>
         \o RowGroupsFrom(sizes, dictionaries, k + 1, start + sizes[k])

RowGroupFiles ==
    UNION {{RowGroupsFrom(sizes, dictionaries, 1, ChunkStart) :
              sizes \in [1..n -> RowGroupSizes],
              dictionaries \in [1..n -> DictionaryLayouts]} : n \in 0..MaxRowGroups}

\* the bounds given to with_range: the least midpoint of the first row group,
\* and one and two row groups further
RangeBounds == {ChunkStart + CompressedSize \div 2 + k * CompressedSize : k \in 0..2}

\* the closures given to with_predicate: |_, _| true and |_, _| false, one on
\* the index of the row group, and one that counts its calls
Closures ==
    {[kind |-> "const", value |-> b] : b \in BOOLEAN}
    \cup {[kind |-> "skip", index |-> 0], [kind |-> "take", remaining |-> 1]}

ReadOptionsBuilderNew ==
    /\ result = NoCall
    /\ options = None
    /\ options' = Some(ReadOptionsBuilder_new)
    /\ result' = [op |-> "new", ret |-> OkUnit]
    /\ UNCHANGED <<ree_vars, filter_vars, reader_vars, decoding, row_groups,
                   columns_vars, records_vars, search_vars>>

WithPredicate ==
    /\ options # None
    /\ Len(options[1].predicates) < MaxPredicates
    /\ \E predicate \in Closures :
         options' = Some(with_predicate(options[1], predicate))
    /\ result' = [op |-> "with_predicate", ret |-> OkUnit]
    /\ UNCHANGED <<ree_vars, filter_vars, reader_vars, decoding, row_groups,
                   columns_vars, records_vars, search_vars>>

WithRange ==
    /\ options # None
    /\ Len(options[1].predicates) < MaxPredicates
    /\ \E start \in RangeBounds, end \in RangeBounds :
         LET call == with_range(options[1], start, end) IN
           /\ options' = IF call = Panicked THEN None ELSE Some(call.builder)
           /\ result' = [op |-> "with_range",
                         ret |-> IF call = Panicked THEN Panicked ELSE OkUnit]
    /\ UNCHANGED <<ree_vars, filter_vars, reader_vars, decoding, row_groups,
                   columns_vars, records_vars, search_vars>>

WithPageIndex ==
    /\ options # None
    /\ options' = Some(with_page_index(options[1]))
    /\ result' = [op |-> "with_page_index", ret |-> OkUnit]
    /\ UNCHANGED <<ree_vars, filter_vars, reader_vars, decoding, row_groups,
                   columns_vars, records_vars, search_vars>>

\* build, then new_with_options on a file, whose footer parses or not and
\* whose page indexes can be read or not
NewWithOptions ==
    /\ options # None
    /\ \E file \in RowGroupFiles, parses \in BOOLEAN, readable \in BOOLEAN :
         LET read_options == build(options[1])
             parsed == IF parses THEN OkSome(file) ELSE Err("corrupt footer")
             call == new_with_options(parsed, read_options, readable)
         IN /\ row_groups' = file
            /\ result' = [op |-> "new_with_options", ret |-> call.ret,
                          calls |-> call.calls, before |-> read_options]
    /\ options' = None
    /\ UNCHANGED <<ree_vars, filter_vars, reader_vars, decoding, columns_vars,
                   records_vars, search_vars>>

(***************************************************************************)
(* array_reader::read_records                                              *)
(***************************************************************************)
OkCount(n) == [kind |-> "Ok", count |-> n]

\* what record_reader.read_records(records_to_read) can return: an error, or
\* a number of records up to the number asked for
ReadOutcomes(records_to_read) ==
    {Err("record reader")} \cup {OkCount(n) : n \in 0..records_to_read}

\* what record_reader.set_page_reader(page_reader) can return
SetOutcomes == {OkUnit, Err("set_page_reader")}

\* the state of a call: its arguments, its local records_read, where it is
\* (in the loop or returned), what it returned and the calls it has made
read_records_called(pages, batch_size) ==
    [record_reader |-> [page_reader |-> None],
     pages |-> pages,
     batch_size |-> batch_size,
     records_read |-> 0,
     pc |-> "while",
     ret |-> None,
     calls |-> <<>>]

returned(s, ret, calls) ==
    [s EXCEPT !.pc = "returned", !.ret = Some(ret), !.calls = @ \o calls]

\* mutant: the page reader taken from the iterator is dropped
next_page_reader_dropped(s, records_read, read_call, installed) ==
    IF s.pages = <<>>
    THEN returned([s EXCEPT !.records_read = records_read],
                  OkCount(records_read),
                  <<read_call, [call |-> "next", ret |-> None]>>)
    ELSE LET page_reader == Head(s.pages)
             next_call == [call |-> "next", ret |-> Some(page_reader)]
             popped_s == [s EXCEPT !.records_read = records_read,
                                   !.pages = Tail(@)]
         IN IF page_reader.kind = "Err"
            THEN returned(popped_s, page_reader, <<read_call, next_call>>)
            ELSE [popped_s EXCEPT !.calls = @ \o <<read_call, next_call>>]

\* lines 145-153: the record reader is exhausted
next_page_reader(s, records_read, read_call, installed) ==
    IF s.pages = <<>>
    THEN returned([s EXCEPT !.records_read = records_read],
                  OkCount(records_read),
                  <<read_call, [call |-> "next", ret |-> None]>>)
    ELSE LET page_reader == Head(s.pages)
             next_call == [call |-> "next", ret |-> Some(page_reader)]
             popped_s == [s EXCEPT !.records_read = records_read,
                                   !.pages = Tail(@)]
         IN IF page_reader.kind = "Err"
            THEN returned(popped_s, page_reader, <<read_call, next_call>>)
            ELSE LET set_call == [call |-> "set_page_reader",
                                  page_reader |-> page_reader.item,
                                  ret |-> installed]
                 IN IF installed.kind = "Err"
                    THEN returned(popped_s, installed,
                                  <<read_call, next_call, set_call>>)
                    ELSE [popped_s EXCEPT
                            !.record_reader.page_reader = Some(page_reader.item),
                            !.calls = @ \o <<read_call, next_call, set_call>>]

\* lines 137-157: the test of the while loop and one pass through its body,
\* in which record_reader.read_records returns read and set_page_reader, if
\* it is called, returns installed
read_records_iteration(s, read, installed) ==
    IF ~(s.records_read < s.batch_size)
    THEN returned(s, OkCount(s.records_read), <<>>)
    ELSE LET records_to_read == s.batch_size - s.records_read
             read_call == [call |-> "read_records",
                           records_to_read |-> records_to_read, ret |-> read]
         IN IF read.kind = "Err" THEN returned(s, read, <<read_call>>)
            ELSE LET records_read_once == read.count
                     records_read == s.records_read + records_read_once
                 IN IF records_read_once < records_to_read
                    THEN next_page_reader(s, records_read, read_call, installed)
                    ELSE [s EXCEPT !.records_read = records_read,
                                   !.calls = Append(@, read_call)]

\* the page iterators: each item is a page reader or an error
PageIterators ==
    UNION {{[k \in 1..n |-> IF ok[k] THEN OkSome(k) ELSE Err("page iterator")] :
              ok \in [1..n -> BOOLEAN]} : n \in 0..MaxChunks}

\* one pass of the loop of read_records
ReadRecordsIteration ==
    /\ batch # None
    /\ batch[1].pc = "while"
    /\ \E read \in ReadOutcomes(batch[1].batch_size - batch[1].records_read),
          installed \in SetOutcomes :
         batch' = Some(read_records_iteration(batch[1], read, installed))
    /\ UNCHANGED <<ree_vars, filter_vars, reader_vars, result, decoding,
                   options_vars, columns_vars, search_vars>>


(***************************************************************************)
(* Specifications                                                          *)
(***************************************************************************)
IdleRun ==
    /\ run_ends = <<>> /\ values = <<>> /\ input = <<>> /\ array = None
    /\ search = None
IdleFilter ==
    offset_index = <<>> /\ ranges = <<>> /\ total_row_count = 0 /\ filter = None
IdleFile ==
    /\ decoding = None
    /\ row_groups = <<>> /\ options = None
    /\ columns = <<>> /\ page_readers = <<>> /\ yielded = <<>>
    /\ batch = None
IdleReader ==
    chunk = None /\ reader = None /\ emitted = <<>> /\ ended = FALSE /\ skips = 0

\* RunArray::try_new on every pair of arrays within the bounds, then reads
InitRun ==
    /\ IdleFile
    /\ run_ends \in SeqsUpTo(RunEndSlots, MaxLen)
    /\ values \in SeqsUpTo(ValueSlots, MaxLen)
    /\ input = <<>>
    /\ array = None
    /\ search = None
    /\ result = NoCall
    /\ IdleFilter
    /\ IdleReader

NextRun ==
    \/ TryNew
    \/ \E i \in 0..(MaxEnd + 1) : GetPhysicalIndex(i)
    \/ \E i \in 0..(MaxEnd + 1) : Value(i)

SpecRun == InitRun /\ [][NextRun]_vars

\* from_iter on every logical array within the bounds, then reads
InitBuild ==
    /\ IdleFile
    /\ run_ends = <<>>
    /\ values = <<>>
    /\ input \in SeqsUpTo(ValueSlots, MaxInput)
    /\ array = None
    /\ search = None
    /\ result = NoCall
    /\ IdleFilter
    /\ IdleReader

NextBuild ==
    \/ FromIter
    \/ \E i \in 0..(MaxInput + 1) : GetPhysicalIndex(i)
    \/ \E i \in 0..(MaxInput + 1) : Value(i)

SpecBuild == InitBuild /\ [][NextBuild]_vars

(***************************************************************************)
(* TypedRunArray::get_physical_index, one step per loop iteration          *)
(***************************************************************************)
\* entry of get_physical_index: the bound check, then st = 0, en = run_ends().len()
get_physical_index_called(arr, logical_index) ==
    IF logical_index >= arr.len
    THEN [logical_index |-> logical_index, st |-> 0, en |-> 0, pc |-> "returned",
          ret |-> None, last |-> None]
    ELSE [logical_index |-> logical_index, st |-> 0, en |-> Len(arr.run_ends),
          pc |-> "while", ret |-> None, last |-> None]

\* mutant: the loop goes on while st < en
search_continues_while_nonempty(st, en) == st < en

\* the loop condition `st + 1 < en`
search_continues(st, en) == st + 1 < en

\* what value_unchecked(k) can yield: the item when k is in bounds, anything otherwise
unchecked_reads(re, k) ==
    IF k >= 0 /\ k < Len(re) THEN {value_unchecked(re, k)} ELSE RunEndItems

\* one evaluation of the loop condition and, when it holds, one loop body
search_iteration(s, probed) ==
    IF search_continues(s.st, s.en)
    THEN LET mid == (s.st + s.en) \div 2
             last == Some([st |-> s.st, en |-> s.en, mid |-> mid])
         IN  IF s.logical_index < as_usize(probed)
             THEN [s EXCEPT !.en = mid, !.last = last]
             ELSE [s EXCEPT !.st = mid, !.last = last]
    ELSE [s EXCEPT !.pc = "returned", !.ret = Some(s.st)]

SearchIteration ==
    /\ search # None
    /\ search[1].pc = "while"
    /\ LET s == search[1]
           mid == (s.st + s.en) \div 2
       IN  \E probed \in unchecked_reads(array[1].run_ends, mid - 1) :
               search' = Some(search_iteration(s, probed))
    /\ UNCHANGED <<ree_vars, filter_vars, reader_vars, result, file_vars>>

InitSearch ==
    /\ IdleFile
    /\ run_ends \in SeqsUpTo(RunEndSlots, MaxLen)
    /\ values \in SeqsUpTo(ValueSlots, MaxLen)
    /\ try_new(run_ends, values).ok
    /\ input = <<>>
    /\ array = Some(try_new(run_ends, values).array)
    /\ \E logical_index \in 0..(MaxEnd + 1) :
           search = Some(get_physical_index_called(array[1], logical_index))
    /\ result = NoCall
    /\ IdleFilter
    /\ IdleReader

NextSearch == SearchIteration

SpecSearch == InitSearch /\ [][NextSearch]_vars /\ WF_vars(NextSearch)

\* FilterOffsetIndex::try_new on every page index and row ranges within the bounds
InitFilter ==
    /\ IdleFile
    /\ IdleRun
    /\ result = NoCall
    /\ \E f \in AscendingRows :
        /\ offset_index = PageLocations(f)
        /\ total_row_count \in
              {t \in 1..(MaxRow + 1) : Len(f) > 0 => t > f[Len(f)]}
    /\ ranges \in RowRangesSet
    /\ filter = None
    /\ IdleReader

NextFilter ==
    \/ FilterTryNew
    \/ GetPageCount
    \/ \E page_index \in 0..MaxPages : GetFirstRowIndex(page_index)
    \/ \E page_index \in 0..MaxPages : GetLastRowIndex(page_index)

SpecFilter == InitFilter /\ [][NextFilter]_vars

\* the pruner on chunks whose pages differ in size and may have gaps between them
InitOffsets ==
    /\ IdleFile
    /\ IdleRun
    /\ result = NoCall
    /\ \E n \in 0..MaxPages :
        /\ \E first_offset \in 1..MaxFirstOffset :
           \E sizes \in [1..n -> 1..MaxSize] :
           \E gaps \in [1..(n - 1) -> 0..MaxGap] :
              offset_index = LaidOutPages(first_offset, sizes, gaps)
        /\ total_row_count = n
    /\ ranges \in RowRangesSet
    /\ filter = None
    /\ IdleReader

NextOffsets ==
    \/ FilterTryNew
    \/ GetPageCount
    \/ \E row_group_offset \in 0..MaxFirstOffset :
          CalculateOffsetRange(row_group_offset)

SpecOffsets == InitOffsets /\ [][NextOffsets]_vars

\* decode_page is called on a header, a body and the column's codec
InitDecode ==
    /\ IdleRun
    /\ IdleFilter
    /\ IdleReader
    /\ result = NoCall
    /\ decoding \in {Some([page_header |-> h, buffer |-> b, decompressor |-> d]) :
                        h \in DecodeHeaders,
                        b \in SeqsUpTo(Bytes, MaxBody),
                        d \in {None, create_codec("SNAPPY")}}
    /\ batch = None
    /\ row_groups = <<>> /\ options = None
    /\ columns = <<>> /\ page_readers = <<>> /\ yielded = <<>>

NextDecode == DecodePage

SpecDecode == InitDecode /\ [][NextDecode]_vars

\* a page reader is built on a column chunk, then driven by its three calls
Init ==
    /\ IdleFile
    /\ IdleRun
    /\ IdleFilter
    /\ result = NoCall
    /\ chunk \in {Some(col) : col \in ColumnChunks}
    /\ reader = Some(get_column_page_reader(chunk[1]))
    /\ emitted = <<>>
    /\ ended = FALSE
    /\ skips = 0

Next ==
    \/ GetNextPage
    \/ PeekNextPage
    \/ SkipNextPage

Spec == Init /\ [][Next]_vars

\* page readers are obtained for the two columns of a row group and read
InitColumns ==
    /\ IdleRun
    /\ IdleFilter
    /\ IdleReader
    /\ result = NoCall
    /\ decoding = None
    /\ batch = None
    /\ row_groups = <<>> /\ options = None
    /\ columns \in {RowGroupColumns(first, second) :
                      first \in RowGroupChunks, second \in RowGroupChunks}
    /\ page_readers = [i \in 1..Len(columns) |-> None]
    /\ yielded = [i \in 1..Len(columns) |-> <<>>]

NextColumns ==
    \/ \E i \in 1..Len(columns) : GetColumnPageReader(i)
    \/ \E i \in 1..Len(columns) : ColumnGetNextPage(i)

SpecColumns == InitColumns /\ [][NextColumns]_vars

\* a page reader is built on a chunk with a damaged page
InitCorrupt ==
    /\ IdleFile
    /\ IdleRun
    /\ IdleFilter
    /\ result = NoCall
    /\ chunk \in {Some(col) : col \in CorruptChunks}
    /\ reader = Some(get_column_page_reader(chunk[1]))
    /\ emitted = <<>>
    /\ ended = FALSE
    /\ skips = 0

SpecCorrupt == InitCorrupt /\ [][Next]_vars

\* read options are built and a file of row groups is opened with them
InitOptions ==
    /\ IdleRun
    /\ IdleFilter
    /\ IdleReader
    /\ IdleFile
    /\ result = NoCall

NextOptions ==
    \/ ReadOptionsBuilderNew
    \/ WithPredicate
    \/ WithRange
    \/ WithPageIndex
    \/ NewWithOptions

SpecOptions == InitOptions /\ [][NextOptions]_vars

\* read_records is called on a record reader and a page iterator; the loop
\* is code that runs on, so a pass that can be made is made
InitRecords ==
    /\ IdleRun
    /\ IdleFilter
    /\ IdleReader
    /\ result = NoCall
    /\ decoding = None
    /\ row_groups = <<>> /\ options = None
    /\ columns = <<>> /\ page_readers = <<>> /\ yielded = <<>>
    /\ batch \in {Some(read_records_called(pages, batch_size)) :
                    pages \in PageIterators, batch_size \in 0..MaxBatch}

NextRecords == ReadRecordsIteration

SpecRecords == InitRecords /\ [][NextRecords]_vars /\ WF_vars(NextRecords)

(***************************************************************************)
(* Vocabulary of the properties                                            *)
(***************************************************************************)
\* the construction invariants of a run_ends array
NoNullRunEnds(re) == \A k \in 1..Len(re) : ~is_null(re[k])
PositiveRunEnds(re) == \A k \in 1..Len(re) : ~is_null(re[k]) => re[k][1] > 0
IncreasingRunEnds(re) ==
    \A k \in 2..Len(re) :
        (~is_null(re[k]) /\ ~is_null(re[k - 1])) => re[k][1] > re[k - 1][1]
ValidRunEnds(re) == NoNullRunEnds(re) /\ PositiveRunEnds(re) /\ IncreasingRunEnds(re)

\* run_ends[j - 1] for a 0-based j, taking run_ends[-1] as 0
RunEndBefore(re, j) == IF j = 0 THEN 0 ELSE re[j][1]

\* the last run end, 0 for no runs
LastRunEnd(re) == IF Len(re) = 0 THEN 0 ELSE re[Len(re)][1]

(***************************************************************************)
(* C1: on a valid run_ends array of R >= 1 runs and a logical index i      *)
(* below the last run end, get_physical_index(i) returns Some(j) with      *)
(* run_ends[j-1] <= i < run_ends[j] (run_ends[-1] taken as 0), and j is    *)
(* the smallest position whose run end exceeds i.                          *)
(***************************************************************************)
C1_PhysicalIndexIsTheRun ==
    (/\ array # None
     /\ result.op = "get_physical_index"
     /\ ValidRunEnds(array[1].run_ends)
     /\ Len(array[1].run_ends) >= 1
     /\ result.arg < LastRunEnd(array[1].run_ends))
    => LET re == array[1].run_ends IN
       /\ result.ret # None
       /\ result.ret[1] \in 0..(Len(re) - 1)
       /\ RunEndBefore(re, result.ret[1]) <= result.arg
       /\ result.arg < re[result.ret[1] + 1][1]
       /\ \A k \in 0..(Len(re) - 1) :
              re[k + 1][1] > result.arg => result.ret[1] <= k

\* a search that ends in the middle run of three
C1_Witness ==
    /\ array # None
    /\ result.op = "get_physical_index"
    /\ run_ends = <<Some(1), Some(3), Some(4)>>
    /\ result.arg = 2
    /\ result.ret = Some(1)

(***************************************************************************)
(* C2: get_physical_index(i) returns None exactly when i is at or beyond   *)
(* the logical length (the last run end, 0 for an empty array), and Some   *)
(* for every i below it.                                                   *)
(***************************************************************************)
C2_NoneIffBeyondLength ==
    (array # None /\ result.op = "get_physical_index")
    => (result.ret = None <=> result.arg >= LastRunEnd(array[1].run_ends))

\* the first index past the end of a non-empty array
C2_Witness ==
    /\ array # None
    /\ result.op = "get_physical_index"
    /\ Len(array[1].run_ends) >= 2
    /\ result.arg = LastRunEnd(array[1].run_ends)
    /\ result.ret = None

(***************************************************************************)
(* C3: RunArray::try_new succeeds if and only if the lengths agree,        *)
(* run_ends has no nulls, every run end is positive and every run end is   *)
(* greater than its predecessor; when it fails no array is constructed.    *)
(***************************************************************************)
C3_TryNewIffInvariants ==
    result.op = "try_new"
    => /\ result.ok <=> (Len(run_ends) = Len(values) /\ ValidRunEnds(run_ends))
       /\ result.ok <=> array # None

\* equal lengths and no nulls, rejected for the values of the run ends
C3_Witness ==
    /\ result.op = "try_new"
    /\ ~result.ok
    /\ array = None
    /\ Len(run_ends) = Len(values)
    /\ NoNullRunEnds(run_ends)
    /\ Len(run_ends) = 3

(***************************************************************************)
(* C4: the error of a rejected try_new has the kind of an invariant that   *)
(* is violated and names the offending data: both lengths, the null        *)
(* violation, the index and value of a run end <= 0, or the index, value   *)
(* and previous value of a run end that does not exceed its predecessor.   *)
(***************************************************************************)
C4_ErrorNamesViolation ==
    (result.op = "try_new" /\ ~result.ok)
    => LET e == result.err IN
       \/ /\ e.kind = "LengthMismatch"
          /\ Len(run_ends) # Len(values)
          /\ e.run_ends_len = Len(run_ends)
          /\ e.values_len = Len(values)
       \/ /\ e.kind = "NullsInRunEnds"
          /\ ~NoNullRunEnds(run_ends)
       \/ /\ e.kind = "NonPositiveRunEnd"
          /\ e.index \in 0..(Len(run_ends) - 1)
          /\ run_ends[e.index + 1] = Some(e.value)
          /\ e.value <= 0
       \/ /\ e.kind = "NonIncreasingRunEnd"
          /\ e.index \in 1..(Len(run_ends) - 1)
          /\ run_ends[e.index + 1] = Some(e.value)
          /\ run_ends[e.index] = Some(e.prev)
          /\ e.value <= e.prev

\* run ends 1, 4, 4: the third does not exceed the second
C4_Witness ==
    /\ result.op = "try_new"
    /\ ~result.ok
    /\ run_ends = <<Some(1), Some(4), Some(4)>>
    /\ result.err = [kind |-> "NonIncreasingRunEnd", index |-> 2, value |-> 4,
                     prev |-> 4]

(***************************************************************************)
(* C5: the logical length of an array built by try_new is the last value   *)
(* of run_ends, and 0 when run_ends is empty.                              *)
(***************************************************************************)
C5_LengthIsLastRunEnd ==
    (result.op = "try_new" /\ result.ok)
    => /\ array # None
       /\ array[1].len = LastRunEnd(run_ends)
       /\ (run_ends = <<>> => array[1].len = 0)

\* two runs that cover four logical items
C5_Witness ==
    /\ result.op = "try_new"
    /\ result.ok
    /\ Len(run_ends) = 2
    /\ array[1].len = 4

(***************************************************************************)
(* C6: REE round trip.  After a logical array A is encoded, value(i)       *)
(* returns A[i] for every i where A[i] is not null, and the values entry   *)
(* at get_physical_index(i) is null for every i where A[i] is null.        *)
(***************************************************************************)
C6_RoundTrip ==
    /\ (/\ array # None
        /\ result.op = "value"
        /\ result.arg < Len(input)
        /\ ~is_null(input[result.arg + 1]))
       => result.ret = Returned(input[result.arg + 1][1])
    /\ (/\ array # None
        /\ result.op = "get_physical_index"
        /\ result.arg < Len(input)
        /\ is_null(input[result.arg + 1]))
       => /\ result.ret # None
          /\ result.ret[1] < Len(array[1].values)
          /\ is_null(array[1].values[result.ret[1] + 1])

\* a read of the last item of an array of several runs, one of them null
C6_Witness ==
    /\ array # None
    /\ result.op = "value"
    /\ Len(input) = 4
    /\ result.arg = 3
    /\ is_null(input[2])
    /\ input[3] # input[4]
    /\ result.ret = Returned(input[4][1])

(***************************************************************************)
(* C7: encoding produces maximal runs.  Every maximal block of consecutive *)
(* equal items (nulls equal to nulls) is one run: run_ends[k] is the       *)
(* exclusive end of block k, values[k] its value, and the length of the    *)
(* array is the number of items.                                           *)
(***************************************************************************)
C7_MaximalRuns ==
    (array # None /\ result.op = "from_iter")
    => LET re == array[1].run_ends
           vs == array[1].values
           R == Len(re)
       IN  /\ Len(vs) = R
           /\ ValidRunEnds(re) /\ NoNullRunEnds(re)
           /\ array[1].len = Len(input)
           /\ LastRunEnd(re) = Len(input)
           /\ \A k \in 1..R :
                \A p \in (RunEndBefore(re, k - 1) + 1)..re[k][1] :
                    input[p] = vs[k]
           /\ \A k \in 1..(R - 1) : vs[k] # vs[k + 1]

\* Some(a), None, None, Some(a): three runs, the middle one a null run of two
C7_Witness ==
    /\ array # None
    /\ result.op = "from_iter"
    /\ input = <<Some(10), None, None, Some(10)>>
    /\ array[1].run_ends = <<Some(1), Some(3), Some(4)>>
    /\ array[1].values = <<Some(10), None, Some(10)>>

(***************************************************************************)
(* C8: value(i) panics when i is at or beyond the logical length of the    *)
(* array and never panics for an i below it.                               *)
(***************************************************************************)
C8_ValuePanicsIffOutOfBounds ==
    (array # None /\ result.op = "value")
    => (result.ret = Panic <=> result.arg >= array[1].len)

\* a read of the last item does not panic
C8_Witness ==
    /\ array # None
    /\ result.op = "value"
    /\ array[1].len >= 2
    /\ result.arg = array[1].len - 1
    /\ result.ret # Panic

(***************************************************************************)
(* C9: pruner soundness.  try_new retains page i if and only if its row    *)
(* range, [first_row_index[i], first_row_index[i+1] - 1] for a non-final   *)
(* page and [first_row_index[i], total_rows] for the final one, overlaps   *)
(* (inclusively on both ends) at least one of the requested ranges.        *)
(***************************************************************************)
PageFirstRow(i) == offset_index[i + 1].first_row_index
PageLastRow(i) ==
    IF i = Len(offset_index) - 1 THEN total_row_count
    ELSE offset_index[i + 2].first_row_index - 1
PageOverlaps(i) ==
    \E k \in 1..Len(ranges) :
        ranges[k].from <= PageLastRow(i) /\ PageFirstRow(i) <= ranges[k].to
Retained(i) == \E k \in 1..Len(filter[1].index_map) : filter[1].index_map[k] = i

C9_RetainedIffOverlaps ==
    (filter # None /\ result.op = "filter_try_new")
    => \A i \in 0..(Len(offset_index) - 1) : Retained(i) <=> PageOverlaps(i)

\* a page dropped because the range starts right after its last row
C9_Witness ==
    /\ filter # None
    /\ result.op = "filter_try_new"
    /\ Len(offset_index) = 3
    /\ ~Retained(0)
    /\ Retained(1)
    /\ ~Retained(2)
    /\ Len(ranges) = 1
    /\ ranges[1].from = PageLastRow(0) + 1
    /\ ranges[1].to = PageLastRow(1)

(***************************************************************************)
(* C10: the entries of index_map are strictly increasing and each is a     *)
(* valid position of the stored offset index; on an empty location list    *)
(* try_new does not fail and index_map is empty.                           *)
(***************************************************************************)
C10_IndexMapSorted ==
    result.op = "filter_try_new"
    => /\ ~result.panic
       /\ filter # None
       /\ filter[1].offset_index = offset_index
       /\ LET m == filter[1].index_map IN
          /\ \A k \in 1..Len(m) : m[k] \in 0..(Len(offset_index) - 1)
          /\ \A k \in 1..(Len(m) - 1) : m[k] < m[k + 1]
          /\ (offset_index = <<>> => m = <<>>)

\* the first and the last of three pages are retained
C10_Witness ==
    /\ result.op = "filter_try_new"
    /\ filter # None
    /\ Len(offset_index) = 3
    /\ filter[1].index_map = <<0, 2>>

(***************************************************************************)
(* Vocabulary of the coalescing properties                                 *)
(***************************************************************************)
\* the retained pages of the filter, in order
RetainedPages == [k \in 1..Len(filter[1].index_map) |->
                     offset_index[filter[1].index_map[k] + 1]]

\* the extents of the last calculate_offset_range call, as (start, length) records
Extents == [k \in 1..Len(result.ret.start_list) |->
               [start |-> result.ret.start_list[k],
                length |-> result.ret.length_list[k]]]

DictionaryExpected ==
    RetainedPages # <<>> /\ RetainedPages[1].offset > result.arg

\* the extents after the dictionary extent, if one is expected
DataExtents ==
    IF DictionaryExpected /\ Extents # <<>> THEN Tail(Extents) ELSE Extents

\* the extents strict adjacency gives for the pages ps, the last one being open
RECURSIVE CoalesceStrict(_, _)
CoalesceStrict(ps, done) ==
    IF ps = <<>> THEN done
    ELSE LET p == Head(ps)
             n == Len(done)
         IN  IF n > 0 /\ done[n].start + done[n].length = p.offset
             THEN CoalesceStrict(Tail(ps),
                     [done EXCEPT ![n].length = @ + p.compressed_page_size])
             ELSE CoalesceStrict(Tail(ps),
                     Append(done, [start |-> p.offset,
                                   length |-> p.compressed_page_size]))

(***************************************************************************)
(* C11: coalescing coverage.  The byte span [offset, offset +              *)
(* compressed_page_size) of every retained page lies inside one extent of  *)
(* the output of calculate_offset_range.                                   *)
(***************************************************************************)
C11_ExtentsCoverRetainedPages ==
    (filter # None /\ result.op = "calculate_offset_range")
    => \A k \in 1..Len(RetainedPages) :
          \E e \in 1..Len(Extents) :
              /\ Extents[e].start <= RetainedPages[k].offset
              /\ RetainedPages[k].offset + RetainedPages[k].compressed_page_size
                    <= Extents[e].start + Extents[e].length

(***************************************************************************)
(* C12: calculate_offset_range emits a dictionary extent when and only     *)
(* when the first retained page's offset is greater than row_group_offset; *)
(* it is the first extent and covers [row_group_offset, first_offset):     *)
(* start = row_group_offset, length = first_offset - row_group_offset.     *)
(***************************************************************************)
C12_DictionaryExtent ==
    (filter # None /\ result.op = "calculate_offset_range")
    => /\ Len(result.ret.start_list) = Len(result.ret.length_list)
       /\ RetainedPages = <<>> => Extents = <<>>
       /\ RetainedPages # <<>> => Extents # <<>>
       /\ DictionaryExpected =>
             /\ Extents[1].start = result.arg
             /\ Extents[1].length = RetainedPages[1].offset - result.arg
             /\ Len(Extents) >= 2
             /\ Extents[2].start = RetainedPages[1].offset
       /\ (RetainedPages # <<>> /\ ~DictionaryExpected) =>
             Extents[1].start = RetainedPages[1].offset

(***************************************************************************)
(* C13: coalescing rule.  The walk over the retained pages extends the     *)
(* current extent exactly when the next page's offset equals               *)
(* current_offset + current_length and otherwise starts a new extent, so   *)
(* the data-page extents are those of strict adjacency: the fewest         *)
(* possible, none of them merging two pages separated by a gap.            *)
(***************************************************************************)
C13_StrictAdjacency ==
    (filter # None /\ result.op = "calculate_offset_range")
    => DataExtents = CoalesceStrict(RetainedPages, <<>>)

(***************************************************************************)
(* Vocabulary of the page reader's properties                              *)
(***************************************************************************)
\* the last call was op
LastCall(op) == reader # None /\ result.op = op

IndexEngaged(r) == ~is_null(r.page_offset_index)

\* the number of page locations of the reader's index
NumLocations(r) == Len(r.page_offset_index[1])

ChunkHasDictionary ==
    /\ chunk # None
    /\ chunk[1].pages # <<>>
    /\ chunk[1].pages[1].type = "DICTIONARY_PAGE"

IsDictionaryPage(pg) == pg.type = "DICTIONARY_PAGE"
EmittedData == SelectSeq(emitted, IsDataPage)
EmittedDictionaries == SelectSeq(emitted, IsDictionaryPage)

(***************************************************************************)
(* C14: page-value conservation.  Once get_next_page has returned Ok(None) *)
(* on a reader no page of which was skipped, the num_values of the data    *)
(* pages it returned sum to the chunk's total_num_values.                  *)
(***************************************************************************)
C14_PageValueConservation ==
    (reader # None /\ ended /\ skips = 0)
    => SumValues(EmittedData) = reader[1].total_num_values

\* a chunk of a dictionary page and several data pages, one of them of more
\* than one value, has been read to its end
C14_Witness ==
    /\ reader # None /\ ended /\ skips = 0
    /\ Len(EmittedDictionaries) = 1
    /\ Len(EmittedData) >= 2
    /\ SumValues(EmittedData) > Len(EmittedData)
    /\ SumValues(EmittedData) = reader[1].total_num_values

(***************************************************************************)
(* C15: get_next_page returns Ok(None) whenever seen_num_values >=         *)
(* total_num_values, and the end of the chunk is absorbing: a              *)
(* get_next_page call made after one that returned Ok(None) returns        *)
(* Ok(None) and changes no field of the reader.                            *)
(***************************************************************************)
C15_EndOfChunkAbsorbing ==
    (LastCall("get_next_page")
        /\ (result.before.seen_num_values >= result.before.total_num_values
            \/ result.ended_before))
    => /\ result.ret = OkNone
       /\ reader[1] = result.before

\* get_next_page called again after the end of a chunk that held values
C15_Witness ==
    /\ LastCall("get_next_page")
    /\ result.ended_before
    /\ result.before.total_num_values > 0
    /\ result.before.seen_num_values >= result.before.total_num_values
    /\ result.ret = OkNone
    /\ reader[1] = result.before

(***************************************************************************)
(* C16: on a chunk that has a dictionary page the reader returns exactly   *)
(* one DictionaryPage, before any data page: no data page has been         *)
(* returned while has_dictionary_page_to_read is set, the first page       *)
(* returned is the dictionary page, no second one is returned, and one has *)
(* been returned when the chunk has ended, whichever sequence of           *)
(* get_next_page, peek_next_page and skip_next_page calls was made.        *)
(***************************************************************************)
C16_DictionaryFirst ==
    ChunkHasDictionary
    => /\ reader[1].has_dictionary_page_to_read => EmittedData = <<>>
       /\ emitted # <<>> => IsDictionaryPage(emitted[1])
       /\ Len(EmittedDictionaries) <= 1
       /\ ended => Len(EmittedDictionaries) = 1

C18_NoIndexPeekSkipFail ==
    ((LastCall("peek_next_page") \/ LastCall("skip_next_page"))
        /\ ~IndexEngaged(result.before))
    => /\ result.ret.kind = "Err"
       /\ reader[1] = result.before
       /\ get_next_page(reader[1]) = get_next_page(result.before)

\* skip_next_page has failed on a reader without index that is in mid-chunk
C18_Witness ==
    /\ LastCall("skip_next_page")
    /\ ~IndexEngaged(result.before)
    /\ emitted # <<>> /\ ~ended
    /\ result.ret.kind = "Err"
    /\ reader[1] = result.before

(***************************************************************************)
(* C19: with the page index engaged, skip_next_page fails when             *)
(* seen_num_data_pages has reached the number of page locations, and the   *)
(* failed call changes no field of the reader.                             *)
(***************************************************************************)
C19_SkipPastEndFails ==
    (LastCall("skip_next_page") /\ IndexEngaged(result.before))
    => /\ result.before.seen_num_data_pages >= NumLocations(result.before)
             => result.ret.kind = "Err"
       /\ result.ret.kind = "Err" => reader[1] = result.before

\* skip_next_page has failed after every page location was consumed
C19_Witness ==
    /\ LastCall("skip_next_page")
    /\ IndexEngaged(result.before)
    /\ result.before.seen_num_data_pages = NumLocations(result.before)
    /\ result.ret.kind = "Err"
    /\ reader[1] = result.before

(***************************************************************************)
(* C20: a successful skip_next_page increases seen_num_data_pages by one   *)
(* and leaves seen_num_values, has_dictionary_page_to_read, the page       *)
(* offset index and the queue of page slices as they were.                 *)
(***************************************************************************)
C20_SkipFrame ==
    (LastCall("skip_next_page") /\ result.ret = OkUnit)
    => /\ reader[1].seen_num_data_pages = result.before.seen_num_data_pages + 1
       /\ reader[1].seen_num_values = result.before.seen_num_values
       /\ reader[1].has_dictionary_page_to_read
             = result.before.has_dictionary_page_to_read
       /\ reader[1].page_offset_index = result.before.page_offset_index
       /\ reader[1].page_bufs = result.before.page_bufs

\* a page was skipped after another had been read from its slice
C20_Witness ==
    /\ LastCall("skip_next_page")
    /\ result.ret = OkUnit
    /\ result.before.seen_num_values > 0
    /\ result.before.page_bufs # <<>>
    /\ reader[1].seen_num_data_pages = result.before.seen_num_data_pages + 1
    /\ reader[1].page_bufs = result.before.page_bufs

(***************************************************************************)
(* C21: with the page index engaged, peek_next_page returns Ok(None)       *)
(* exactly when seen_num_data_pages equals the number of page locations;   *)
(* with pages remaining it returns {num_rows: 0, is_dict: true} exactly    *)
(* when seen_num_data_pages = 0 and has_dictionary_page_to_read is set,    *)
(* and a PageMetadata with is_dict = false in every other state.           *)
(***************************************************************************)
DictionaryMetadata == [num_rows |-> 0, is_dict |-> TRUE]

C21_PeekMetadata ==
    (LastCall("peek_next_page") /\ IndexEngaged(result.before))
    => LET r == result.before
           exhausted == r.seen_num_data_pages = NumLocations(r)
           dictionary_next ==
               r.seen_num_data_pages = 0 /\ r.has_dictionary_page_to_read
       IN  /\ result.ret.kind \in {"None", "Some"}
           /\ result.ret = OkNone <=> exhausted
           /\ result.ret = OkSome(DictionaryMetadata)
                 <=> (~exhausted /\ dictionary_next)
           /\ (~exhausted /\ ~dictionary_next)
                 => (result.ret.kind = "Some" /\ ~result.ret.item.is_dict)

\* a peek made after a skip on a chunk whose dictionary page is still unread
\* reports a data page
C21_Witness ==
    /\ LastCall("peek_next_page")
    /\ IndexEngaged(result.before)
    /\ result.before.has_dictionary_page_to_read
    /\ result.before.seen_num_data_pages > 0
    /\ result.before.seen_num_data_pages < NumLocations(result.before)
    /\ result.ret.kind = "Some"
    /\ ~result.ret.item.is_dict

(***************************************************************************)
(* C22: for the data page at position i of the offset index peek_next_page *)
(* reports num_rows = first_row_index[i+1] - first_row_index[i], and       *)
(* total_num_values - first_row_index[i] for the last page; the num_rows   *)
(* of all positions of a chunk whose first page starts at row 0 sum to     *)
(* total_num_values.                                                       *)
(***************************************************************************)
\* what peek_next_page reports when the data page at position i is next
RowsReported(r, i) ==
    peek_next_page([r EXCEPT !.seen_num_data_pages = i,
                             !.has_dictionary_page_to_read = FALSE])
        .ret.item.num_rows

RECURSIVE SumRowsReported(_, _)
SumRowsReported(r, i) ==
    IF i >= NumLocations(r) THEN 0
    ELSE RowsReported(r, i) + SumRowsReported(r, i + 1)

C22_PeekRowCount ==
    /\ (LastCall("peek_next_page") /\ result.ret.kind = "Some"
           /\ ~result.ret.item.is_dict)
       => LET i == result.before.seen_num_data_pages
              locations == result.before.page_offset_index[1]
          IN  result.ret.item.num_rows =
                 IF i = Len(locations) - 1
                 THEN result.before.total_num_values
                      - locations[i + 1].first_row_index
                 ELSE locations[i + 2].first_row_index
                      - locations[i + 1].first_row_index
    /\ (reader # None /\ IndexEngaged(reader[1])
           /\ reader[1].page_offset_index[1][1].first_row_index = 0)
       => SumRowsReported(reader[1], 0) = reader[1].total_num_values

\* a page that is not the last one, of more than one row, has been peeked
C22_Witness ==
    /\ LastCall("peek_next_page")
    /\ result.ret.kind = "Some"
    /\ ~result.ret.item.is_dict
    /\ result.before.seen_num_data_pages + 1 < NumLocations(result.before)
    /\ result.ret.item.num_rows > 1
    /\ result.ret.item.num_rows < result.before.total_num_values

(***************************************************************************)
(* C23: the data pages get_next_page returns come in ascending position    *)
(* of the chunk (ascending offset and first_row_index), each one strictly  *)
(* after every data page returned before it, so that none is returned      *)
(* twice, whichever calls were made in between.                            *)
(***************************************************************************)
C23_AscendingDataPages ==
    reader # None
    => \A j, k \in 1..Len(EmittedData) :
          j < k => EmittedData[j].offset < EmittedData[k].offset

\* pages were skipped between two data pages that were returned
C23_Witness ==
    /\ reader # None
    /\ skips >= 1
    /\ Len(EmittedData) >= 2
    /\ EmittedData[1].offset + CompressedSize < EmittedData[2].offset

(***************************************************************************)
(* C24: a page of an unknown type is never returned.  get_next_page passes *)
(* it over, leaving seen_num_values and seen_num_data_pages as they were,  *)
(* and goes on to the page after it: every page returned is a dictionary   *)
(* or data page, the counters move by the returned data page only, and a   *)
(* reader of a contiguous buffer returns the first page of a known type    *)
(* that lies ahead.                                                        *)
(***************************************************************************)
KnownPageTypes == DataPageTypes \cup {"DICTIONARY_PAGE"}
IsKnownPage(pg) == pg.type \in KnownPageTypes

C24_UnknownPagesPassedOver ==
    /\ reader # None => \A k \in 1..Len(emitted) : IsKnownPage(emitted[k])
    /\ LastCall("get_next_page")
       => LET r == result.before
              returned_data ==
                  result.ret.kind = "Some" /\ IsDataPage(result.ret.item)
          IN  /\ result.ret.kind # "Panic"
              /\ reader[1].seen_num_values = r.seen_num_values
                    + (IF returned_data THEN result.ret.item.num_values ELSE 0)
              /\ reader[1].seen_num_data_pages = r.seen_num_data_pages
                    + (IF returned_data THEN 1 ELSE 0)
              /\ (~IndexEngaged(r) /\ more_to_read(r)
                     /\ SelectSeq(r.buf, IsKnownPage) # <<>>)
                 => /\ result.ret.kind = "Some"
                    /\ result.ret.item.offset
                          = Head(SelectSeq(r.buf, IsKnownPage)).offset
                    /\ SelectSeq(reader[1].buf, IsKnownPage)
                          = Tail(SelectSeq(r.buf, IsKnownPage))

\* get_next_page met an INDEX_PAGE and returned the data page behind it
C24_Witness ==
    /\ LastCall("get_next_page")
    /\ result.before.buf # <<>>
    /\ Head(result.before.buf).type = "INDEX_PAGE"
    /\ result.before.seen_num_values > 0
    /\ result.ret.kind = "Some"
    /\ IsDataPage(result.ret.item)
    /\ reader[1].seen_num_data_pages = result.before.seen_num_data_pages + 1

(***************************************************************************)
(* Vocabulary of decode_page's properties                                  *)
(***************************************************************************)
Decoded == decoding # None /\ result.op = "decode_page"

\* the claims' condition for decompressing: a codec, and a page that is a
\* dictionary page, a v1 data page or a v2 data page flagged compressed
\* (or not flagged at all)
ShouldDecompress ==
    LET h == decoding[1].page_header IN
    /\ decoding[1].decompressor # None
    /\ \/ h.type \in {"DICTIONARY_PAGE", "DATA_PAGE"}
       \/ /\ h.type = "DATA_PAGE_V2"
          /\ h.data_page_header_v2[1].is_compressed \in {None, Some(TRUE)}

\* the level bytes at the front of a v2 page body
LevelBytes ==
    LET h == decoding[1].page_header IN
    IF h.type = "DATA_PAGE_V2"
    THEN h.data_page_header_v2[1].definition_levels_byte_length
         + h.data_page_header_v2[1].repetition_levels_byte_length
    ELSE 0

BodyPrefix == SubSeq(decoding[1].buffer, 1, LevelBytes)
BodySuffix == SubSeq(decoding[1].buffer, LevelBytes + 1, Len(decoding[1].buffer))

\* what the codec makes of the bytes behind the level bytes
SuffixDecompressed == decompress(BodySuffix, <<>>)

(***************************************************************************)
(* C25: when decode_page decompresses a body it returns a page only if     *)
(* the length of the buffer it built, the level bytes and the decompressed *)
(* rest, equals the header's uncompressed_page_size; with any other length *)
(* it returns an error.                                                    *)
(***************************************************************************)
C25_DecompressedSizeChecked ==
    (Decoded /\ ShouldDecompress)
    => /\ result.ret.kind = "Some"
             => Len(result.ret.item.buf)
                   = decoding[1].page_header.uncompressed_page_size
       /\ (LevelBytes <= Len(decoding[1].buffer)
             /\ SuffixDecompressed.kind = "Ok"
             /\ LevelBytes + Len(SuffixDecompressed.out)
                   # decoding[1].page_header.uncompressed_page_size)
          => result.ret.kind = "Err"

\* the codec wrote more bytes than the header announces
C25_Witness ==
    /\ Decoded /\ ShouldDecompress
    /\ LevelBytes <= Len(decoding[1].buffer)
    /\ SuffixDecompressed.kind = "Ok"
    /\ LevelBytes + Len(SuffixDecompressed.out)
          > decoding[1].page_header.uncompressed_page_size
    /\ decoding[1].page_header.uncompressed_page_size = Len(decoding[1].buffer)
    /\ result.ret.kind = "Err"

(***************************************************************************)
(* C26: for a DataPageV2 with is_compressed = true and a codec, the first  *)
(* def_levels_byte_length + rep_levels_byte_length bytes of the decoded    *)
(* body are those of the input buffer, the rest is the decompressed rest   *)
(* of the input, and the decoded body is uncompressed_page_size long.      *)
(***************************************************************************)
C26_LevelBytesVerbatim ==
    (Decoded
        /\ decoding[1].page_header.type = "DATA_PAGE_V2"
        /\ decoding[1].page_header.data_page_header_v2[1].is_compressed = Some(TRUE)
        /\ decoding[1].decompressor # None
        /\ result.ret.kind = "Some")
    => LET buf == result.ret.item.buf IN
       /\ LevelBytes <= Len(buf)
       /\ SubSeq(buf, 1, LevelBytes) = BodyPrefix
       /\ SuffixDecompressed.kind = "Ok"
       /\ SubSeq(buf, LevelBytes + 1, Len(buf)) = SuffixDecompressed.out
       /\ Len(buf) = decoding[1].page_header.uncompressed_page_size

\* a v2 page with a level byte that is a code word for two bytes, and a
\* rest the codec lengthens
C26_Witness ==
    /\ Decoded
    /\ decoding[1].page_header.type = "DATA_PAGE_V2"
    /\ decoding[1].page_header.data_page_header_v2[1].is_compressed = Some(TRUE)
    /\ decoding[1].decompressor # None
    /\ LevelBytes = 1
    /\ decoding[1].buffer = <<2, 2>>
    /\ result.ret.kind = "Some"
    /\ result.ret.item.buf = <<2, 2, 2>>

C28_NoPanic ==
    (reader # None
        /\ result.op \in {"get_next_page", "peek_next_page", "skip_next_page"})
    => result.ret.kind \in {"Some", "None", "Ok", "Err"}

(***************************************************************************)
(* C29: the page readers of different columns of one row group, obtained   *)
(* from one shared chunk reader, are independent.  Whatever the order in   *)
(* which they are created and read, each has yielded what it yields when   *)
(* it is created and read alone, and every page it has yielded lies in     *)
(* the byte range of its own column.                                       *)
(***************************************************************************)
\* the results of the first n get_next_page calls on the reader r
RECURSIVE ResultsOf(_, _)
ResultsOf(r, n) ==
    IF n = 0 THEN <<>>
    ELSE LET call == get_next_page(r) IN
         <<call.ret>> \o ResultsOf(call.reader, n - 1)

\* what a reader of the column yields when no other reader exists
ReadAlone(col, n) == ResultsOf(get_column_page_reader(col), n)

InColumn(col, pg) ==
    col.col_start <= pg.offset /\ pg.offset < col.col_start + col.col_length

MidpointOf(rg) ==
    LET col == rg.columns[1]
        starts == {col.data_page_offset}
                  \cup {col.dictionary_page_offset[k] :
                          k \in 1..Len(col.dictionary_page_offset)}
        first == CHOOSE m \in starts : \A n \in starts : m <= n
    IN first + rg.compressed_size \div 2

IsPure(predicate) == predicate.kind \in {"range", "const", "skip"}

\* what a predicate without state of its own returns for row group i
Holds(predicate, rg, i) ==
    CASE predicate.kind = "range" ->
           predicate.start <= MidpointOf(rg) /\ MidpointOf(rg) < predicate.end
      [] predicate.kind = "const" -> predicate.value
      [] predicate.kind = "skip" -> i # predicate.index

WithoutPageOffsets(rg) == [rg EXCEPT !.page_offset_index = None]

\* predicate k was called for row group i and returned b
PredicateReturned(k, i, b) ==
    \E c \in 1..Len(result.calls) :
        result.calls[c] = [predicate |-> k, row_group |-> i, returned |-> b]

\* every registered predicate returned true for row group i
AllReturnedTrue(i) ==
    \A k \in 1..Len(result.before.predicates) : PredicateReturned(k, i, TRUE)

Opened == result.op = "new_with_options" /\ result.ret.kind = "Some"

\* C30: the reader new_with_options returns holds exactly the row groups for
\* which every registered predicate returned true, in the order of the file; a
\* predicate is asked at most once for a row group, one from with_range(start,
\* end) returns start <= midpoint < end, and with predicates that have no state
\* the row groups kept are those for which all of them hold.
C30_KeptIffAllPredicatesTrue ==
    Opened =>
      LET predicates == result.before.predicates
          kept == result.ret.item.row_groups
          Passing == {i \in 0..(Len(row_groups) - 1) : AllReturnedTrue(i)}
          Nth(j) == CHOOSE i \in Passing : Cardinality({m \in Passing : m <= i}) = j
      IN /\ Len(kept) = Cardinality(Passing)
         /\ \A j \in 1..Len(kept) :
              WithoutPageOffsets(kept[j]) = row_groups[Nth(j) + 1]
         /\ \A c, d \in 1..Len(result.calls) :
              (/\ result.calls[c].predicate = result.calls[d].predicate
               /\ result.calls[c].row_group = result.calls[d].row_group) => c = d
         /\ \A c \in 1..Len(result.calls) :
              LET call == result.calls[c] IN
                IsPure(predicates[call.predicate]) =>
                  call.returned = Holds(predicates[call.predicate],
                                        row_groups[call.row_group + 1],
                                        call.row_group)
         /\ (\A k \in 1..Len(predicates) : IsPure(predicates[k])) =>
              Passing = {i \in 0..(Len(row_groups) - 1) :
                           \A k \in 1..Len(predicates) :
                               Holds(predicates[k], row_groups[i + 1], i)}

\* a file of two row groups is opened with a range and another predicate, and
\* only the second row group is kept
C30_Witness ==
    /\ Opened
    /\ Len(row_groups) = 2
    /\ Len(result.ret.item.row_groups) = 1
    /\ WithoutPageOffsets(result.ret.item.row_groups[1]) = row_groups[2]
    /\ \E k, m \in 1..Len(result.before.predicates) :
         /\ result.before.predicates[k].kind = "range"
         /\ result.before.predicates[m].kind # "range"

(***************************************************************************)
(* C31: a get_next_page that returns a page updates the reader by the kind *)
(* of the page.  A data page, V1 or V2, adds its num_values to             *)
(* seen_num_values and one to seen_num_data_pages; a dictionary page       *)
(* leaves both counters as they were and clears                            *)
(* has_dictionary_page_to_read.                                            *)
(***************************************************************************)
GotPage ==
    reader # None /\ result.op = "get_next_page" /\ result.ret.kind = "Some"

C31_CountersByPageKind ==
    GotPage =>
      LET page == result.ret.item
          was == result.before
          now == reader[1]
      IN /\ IsDataPage(page) =>
              /\ now.seen_num_values = was.seen_num_values + page.num_values
              /\ now.seen_num_data_pages = was.seen_num_data_pages + 1
         /\ IsDictionaryPage(page) =>
              /\ now.seen_num_values = was.seen_num_values
              /\ now.seen_num_data_pages = was.seen_num_data_pages
              /\ ~now.has_dictionary_page_to_read

\* after the dictionary page, announced as unread, and a first data page, a
\* data page of more than one value has been returned
C31_Witness ==
    /\ GotPage
    /\ Len(emitted) = 3
    /\ IsDictionaryPage(emitted[1])
    /\ ChunkHasDictionary
    /\ ~is_null(reader[1].page_offset_index)
    /\ ~reader[1].has_dictionary_page_to_read
    /\ IsDataPage(result.ret.item)
    /\ result.ret.item.num_values > 1
    /\ result.before.seen_num_data_pages = 1

(***************************************************************************)
(* C32: errors of get_next_page.  When fewer bytes than the header's       *)
(* compressed_page_size follow a page header, get_next_page returns an     *)
(* end-of-file error and no page; and a get_next_page that returns an      *)
(* error, whatever its cause, leaves seen_num_values, seen_num_data_pages  *)
(* and has_dictionary_page_to_read as they were.                           *)
(***************************************************************************)
\* the page get_next_page reads first, where the reader has one at hand
PageAtCursor(r) ==
    LET c == select_cursor(r) IN
    IF ~more_to_read(r) \/ c \in {"none", "panic"} THEN None
    ELSE IF cursor_stream(r, c) = <<>> THEN None
    ELSE Some(Head(cursor_stream(r, c)))

IsCutShort(pg) ==
    pg.compressed_page_size >= 0 /\ pg.body_len < pg.compressed_page_size

C32_ErrorsLeaveState ==
    (reader # None /\ result.op = "get_next_page") =>
      /\ (/\ PageAtCursor(result.before) # None
          /\ IsCutShort(PageAtCursor(result.before)[1]))
         => result.ret = Err("eof")
      /\ result.ret.kind = "Err" =>
           /\ reader[1].seen_num_values = result.before.seen_num_values
           /\ reader[1].seen_num_data_pages = result.before.seen_num_data_pages
           /\ reader[1].has_dictionary_page_to_read
                = result.before.has_dictionary_page_to_read

(***************************************************************************)
(* C33: peek/get agreement.  With the page index engaged, after any        *)
(* get_next_page and skip_next_page calls, a skip_next_page while the      *)
(* dictionary page is unread included: when peek_next_page describes the   *)
(* data page at position i = seen_num_data_pages of the offset index, the  *)
(* next get_next_page returns the page at that position, read from the     *)
(* slice of that page.                                                     *)
(***************************************************************************)
\* peek_next_page on reader r describes a data page
PeekDescribesDataPage(r) ==
    /\ ~is_null(r.page_offset_index)
    /\ peek_next_page(r).ret.kind = "Some"
    /\ ~peek_next_page(r).ret.item.is_dict

C33_PeekGetAgreement ==
    (/\ reader # None
     /\ result.op = "get_next_page"
     /\ PeekDescribesDataPage(result.before))
    => /\ result.ret.kind = "Some"
       /\ result.ret.item.offset
            = result.before.page_offset_index[1]
                  [result.before.seen_num_data_pages + 1].offset

(***************************************************************************)
(* C34: with the page index engaged, seen_num_data_pages lies between 0    *)
(* and the number of page locations in every state of the reader, and no   *)
(* call of get_next_page, peek_next_page or skip_next_page makes           *)
(* seen_num_values or seen_num_data_pages smaller.                         *)
(***************************************************************************)
C34_CountersBoundedMonotone ==
    (reader # None /\ IndexEngaged(reader[1])) =>
      /\ 0 <= reader[1].seen_num_data_pages
      /\ reader[1].seen_num_data_pages <= NumLocations(reader[1])
      /\ result.op \in {"get_next_page", "peek_next_page", "skip_next_page"} =>
           /\ reader[1].seen_num_values >= result.before.seen_num_values
           /\ reader[1].seen_num_data_pages >= result.before.seen_num_data_pages

\* pages were read and pages were skipped until every location was counted,
\* and a further skip_next_page was refused
C34_Witness ==
    /\ reader # None
    /\ IndexEngaged(reader[1])
    /\ NumLocations(reader[1]) >= 2
    /\ reader[1].seen_num_data_pages = NumLocations(reader[1])
    /\ skips >= 1
    /\ Len(EmittedData) >= 1
    /\ result.op = "skip_next_page"
    /\ result.ret.kind = "Err"

(***************************************************************************)
(* C35: peek_next_page is read-only.  It leaves the reader as it was, its  *)
(* counters, its dictionary flag, its page slices and the position of its  *)
(* stream; a second peek_next_page returns what the first returned; and    *)
(* the get_next_page or skip_next_page that follows does what it does      *)
(* without the peek.                                                       *)
(***************************************************************************)
C35_PeekReadOnly ==
    LastCall("peek_next_page") =>
      /\ reader[1] = result.before
      /\ peek_next_page(reader[1]).ret = result.ret
      /\ get_next_page(reader[1]) = get_next_page(result.before)
      /\ skip_next_page(reader[1]) = skip_next_page(result.before)

\* the dictionary page has been announced by a peek_next_page on a fresh
\* reader of a chunk of several data pages
C35_Witness ==
    /\ LastCall("peek_next_page")
    /\ result.ret = OkSome([num_rows |-> 0, is_dict |-> TRUE])
    /\ emitted = <<>>
    /\ NumLocations(reader[1]) >= 2
    /\ get_next_page(reader[1]).ret.kind = "Some"

(***************************************************************************)
(* C36: try_new retains a page only if one of the requested row ranges     *)
(* contains a row the page holds.  The rows of the final page are          *)
(* first_row_index[last] .. total_row_count - 1, so it is not retained     *)
(* when every requested range lies at or beyond row total_row_count.       *)
(***************************************************************************)
\* the rows page i holds
PageRows(i) ==
    PageFirstRow(i)..(IF i = Len(offset_index) - 1 THEN total_row_count - 1
                      ELSE offset_index[i + 2].first_row_index - 1)

HoldsRequestedRow(i) ==
    \E k \in 1..Len(ranges) :
        \E row \in PageRows(i) : ranges[k].from <= row /\ row <= ranges[k].to

C36_RetainedHoldsRequestedRow ==
    (filter # None /\ result.op = "filter_try_new")
    => \A i \in 0..(Len(offset_index) - 1) : Retained(i) => HoldsRequestedRow(i)

(***************************************************************************)
(* C37: for the k-th retained page, k < get_page_count(),                  *)
(* get_last_row_index(k, total_row_count) is the first_row_index of the    *)
(* page that follows it in the full offset index, minus 1; it is the       *)
(* total_row_count bound only when the retained page is the last page of   *)
(* the chunk, whether all the pages were retained or only some.            *)
(***************************************************************************)
C37_LastRowOfRetainedPage ==
    (/\ filter # None
     /\ result.op = "get_last_row_index"
     /\ result.arg < get_page_count(filter[1]))
    => LET i == filter[1].index_map[result.arg + 1] IN
       result.ret = IF i = Len(offset_index) - 1 THEN total_row_count
                    ELSE offset_index[i + 2].first_row_index - 1

(***************************************************************************)
(* C38: read_records(record_reader, pages, batch_size) terminates.  It     *)
(* returns the number of records read in all, which is never more than     *)
(* batch_size and is less than batch_size only if the page iterator was    *)
(* exhausted; whenever the record reader returns fewer records than it was *)
(* asked for, the next page reader of the iterator is installed before it  *)
(* is read again; and an error of the iterator or of the record reader is  *)
(* what read_records returns.                                              *)
(***************************************************************************)
HasReturned == batch # None /\ batch[1].pc = "returned"

CallsMade == batch[1].calls

IsRead(c) == c.call = "read_records"
IsShortRead(c) ==
    IsRead(c) /\ c.ret.kind = "Ok" /\ c.ret.count < c.records_to_read
Failed(c) ==
    IF c.call = "next" THEN c.ret # None /\ c.ret[1].kind = "Err"
    ELSE c.ret.kind = "Err"
ErrorOf(c) == IF c.call = "next" THEN c.ret[1] ELSE c.ret

RECURSIVE RecordsReadIn(_)
RecordsReadIn(calls) ==
    IF calls = <<>> THEN 0
    ELSE (IF IsRead(Head(calls)) /\ Head(calls).ret.kind = "Ok"
          THEN Head(calls).ret.count ELSE 0) + RecordsReadIn(Tail(calls))

C38_Returns ==
    batch # None =>
      /\ \A j \in 1..Len(CallsMade) :
           Failed(CallsMade[j]) =>
             /\ j = Len(CallsMade)
             /\ HasReturned
             /\ batch[1].ret = Some(ErrorOf(CallsMade[j]))
      /\ \A j \in 1..Len(CallsMade), k \in 1..Len(CallsMade) :
           (IsShortRead(CallsMade[j]) /\ j < k /\ IsRead(CallsMade[k])) =>
             /\ j + 2 < k
             /\ CallsMade[j + 1].call = "next"
             /\ CallsMade[j + 1].ret # None
             /\ CallsMade[j + 2].call = "set_page_reader"
             /\ CallsMade[j + 2].ret = OkUnit
             /\ Some(OkSome(CallsMade[j + 2].page_reader)) = CallsMade[j + 1].ret
      /\ (HasReturned /\ batch[1].ret[1].kind = "Ok") =>
           LET n == batch[1].ret[1].count IN
             /\ n = RecordsReadIn(CallsMade)
             /\ n <= batch[1].batch_size
             /\ n < batch[1].batch_size =>
                  /\ CallsMade # <<>>
                  /\ CallsMade[Len(CallsMade)] = [call |-> "next", ret |-> None]

C38_ReadRecords == []C38_Returns /\ <>HasReturned

\* read_records has returned fewer records than asked for, after it read
\* short twice and installed the one page reader of the iterator in between
C38_Witness ==
    /\ HasReturned
    /\ batch[1].ret[1].kind = "Ok"
    /\ batch[1].ret[1].count > 0
    /\ batch[1].ret[1].count < batch[1].batch_size
    /\ batch[1].record_reader.page_reader # None
    /\ Len(SelectSeq(CallsMade, IsShortRead)) = 2

(***************************************************************************)
(* C39: the binary-search loop of get_physical_index                       *)
(***************************************************************************)
SearchReturned == search # None /\ search[1].pc = "returned"

\* the iteration that produced the current st and en, if there was one
LastIterationInBounds ==
    (search # None /\ search[1].last # None) =>
        LET s == search[1]
            l == s.last[1]
            R == Len(array[1].run_ends)
        IN  /\ l.st < l.mid /\ l.mid < l.en
            /\ 1 <= l.mid /\ l.mid <= R - 1
            /\ 0 <= l.mid - 1 /\ l.mid - 1 < R
            /\ s.en - s.st < l.en - l.st

SearchResultInRange ==
    (SearchReturned /\ search[1].ret # None) =>
        LET s == search[1]
            R == Len(array[1].run_ends)
        IN  /\ s.ret = Some(s.st)
            /\ 0 <= s.st /\ s.st < R
            /\ s.ret = get_physical_index(array[1], s.logical_index)

\* C39: in every iteration of the binary-search loop of get_physical_index on
\* an array of R run ends, st < mid < en and 1 <= mid <= R - 1, so the
\* unchecked read of run_ends[mid - 1] is within bounds; en - st strictly
\* decreases in each iteration, the loop terminates, and the returned st
\* satisfies 0 <= st < R.
C39_SearchLoop ==
    [](LastIterationInBounds /\ SearchResultInRange) /\ <>SearchReturned

\* a search on MaxLen run ends that returned a later run after a second iteration
C39_Witness ==
    /\ SearchReturned
    /\ search[1].ret # None
    /\ Len(array[1].run_ends) = MaxLen
    /\ search[1].st > 0
    /\ search[1].last # None
    /\ search[1].last[1].st > 0

=============================================================================
